---- MODULE Spec2Model ----
(***************************************************************************)
(* Endpoint discovery of the Nozomi SDK (src/src/index.ts): one call of    *)
(* findFastestEndpoints, from the read of its options to the settlement of *)
(* the promise it returns, with the manifest resolver                      *)
(* (fetchEndpointsFromUrl / getEndpointConfigs), the per-endpoint probers  *)
(* (pingEndpoint / measurePing) that run concurrently, and the ranking.    *)
(*                                                                         *)
(* Strings are sequences of tokens (<<"https://", "host", "/">>), so that  *)
(* startsWith and the trailing-slash regexp are computed, not assumed.     *)
(* JSON values carry their JavaScript type.                                *)
(***************************************************************************)
EXTENDS Integers, Sequences, FiniteSets, TLC

VARIABLES
    pc,               \* position of the call: start, fetch, backoff, awaitBody, resolved, probing, done
    settled,          \* state of the returned promise: pending, fulfilled, rejected
    returned,         \* the sequence the promise was fulfilled with
    endpointsOpt,     \* options.endpoints as the caller passed it
    opts,             \* the other options as the caller passed them
    attempt,          \* loop variable of fetchEndpointsFromUrl
    manifestRequests, \* number of fetch() calls made to the manifest URL
    sleeps,           \* the sleep(ms) calls made by fetchEndpointsFromUrl, in order
    failedFetches,    \* number of manifest fetch attempts that yielded no valid entry
    response,         \* outcome of the latest manifest fetch attempt (a local of the resolver)
    remote,           \* what fetchEndpointsFromUrl returned (const remote; <<>> for null)
    configs,          \* the candidate list (let configs)
    warmupTimes,      \* per candidate: warmupTimes of its pingEndpoint
    times,            \* per candidate: times of its pingEndpoint
    ph,               \* per candidate: state of its prober promise: probing, done, rejected
    notified,         \* per candidate: number of onResult invocations
    observerThrew,    \* some onResult invocation threw
    requests,         \* the urls measurePing has sent a GET to
    issued,           \* per candidate: number of measurePing calls made by its pingEndpoint
    completed,        \* the candidates whose prober has returned, in the order they did
    timers,           \* the delays measurePing has armed its abort timer with
    failedEndpoints,  \* older revision (src/unnamed/part_000): urls marked failed, still in cooldown
    failedAgo,        \* where the cooldown window is followed: per marked url, time since its failure
    lapsed,           \* the urls whose entry a cooldown check has deleted as expired
    peer,             \* a second call of findFastestEndpoints running concurrently: its locals
    cachedEndpoints,  \* NozomiClient.cachedEndpoints (<<>> for null)
    callers,          \* per invocation of getEndpoints or refresh: position, result, cleared in flight
    discoveries,      \* number of discoveries NozomiClient.getEndpoints has started
    clientId,         \* NozomiClient.clientId
    urlResult,        \* the promise of NozomiClient.getFastestEndpointUrl and the url it gave
    registry,         \* older revisions: remoteEndpointsUrl, the endpoint cache and a getEndpoints call
    sender            \* older revision (part_000): a call of sendToFastest or sendWithFallback

vars == <<pc, settled, returned, endpointsOpt, opts, attempt, manifestRequests,
          sleeps, failedFetches, response, remote, configs, warmupTimes, times, ph,
          notified, observerThrew, requests, issued, completed, timers, failedEndpoints,
          failedAgo, lapsed, peer, cachedEndpoints, callers, discoveries, clientId, urlResult,
          registry, sender>>

callVars == <<settled, returned>>
optVars == <<endpointsOpt, opts>>
manifestVars == <<attempt, manifestRequests, sleeps, failedFetches, response, remote>>
proberVars == <<warmupTimes, times, ph, notified, observerThrew, requests, issued, completed,
                timers>>

clientVars == <<cachedEndpoints, callers, discoveries, clientId, urlResult>>

\* the state outside one call of findFastestEndpoints
legacyVars == <<registry, sender>>
beyondVars == <<peer, clientVars, legacyVars>>
otherVars == <<failedEndpoints, failedAgo, lapsed, beyondVars>>

----------------------------------------------------------------------------
(* Bounds of the exploration *)

\* a call issues at most this many probe requests in total, so it has at most
\* this many candidates
MaxProbes == 2

\* a manifest body lists at most this many entries
MaxManifest == 2

\* elapsed times a successful probe can measure (ms)
Times == {1, 2}

----------------------------------------------------------------------------
(* JavaScript values *)

Str(s) == [type |-> "string", val |-> s]
Num(s) == [type |-> "number", val |-> s]
Undefined == [type |-> "undefined", val |-> <<>>]

\* ToBoolean of a value
Truthy(v) ==
    CASE v.type = "string" -> v.val # <<>>
      [] v.type = "number" -> v.val # <<"0">>
      [] OTHER -> FALSE

\* String.prototype.startsWith on token strings
StartsWith(s, prefix) == Len(s) > 0 /\ s[1] = prefix

\* an optional numeric or boolean option: absent (undefined) or given
Absent == [set |-> FALSE, v |-> 0]
Given(n) == [set |-> TRUE, v |-> n]
AbsentFlag == [set |-> FALSE, v |-> FALSE]
GivenFlag(b) == [set |-> TRUE, v |-> b]
AbsentString == [set |-> FALSE, v |-> <<>>]
GivenString(s) == [set |-> TRUE, v |-> s]

\* the ?? operator
Coalesce(o, d) == IF o.set THEN o.v ELSE d

Min2(a, b) == IF a <= b THEN a ELSE b
Max2(a, b) == IF a >= b THEN a ELSE b

\* the value Infinity: larger than every measured time
Infinity == 1000000

----------------------------------------------------------------------------
(* Constants of the program *)

NOZOMI_AUTO_ENDPOINT == <<"https://", "nozomi.temporal.xyz">>

EndpointConfig(url, region) == [obj |-> TRUE, url |-> Str(url), region |-> Str(<<region>>)]

AutoConfig == EndpointConfig(NOZOMI_AUTO_ENDPOINT, "auto")
Pit1Config == EndpointConfig(<<"https://", "pit1.nozomi.temporal.xyz">>, "pittsburgh")
PitConfig == EndpointConfig(<<"https://", "pit.nozomi.temporal.xyz">>, "pittsburgh")
Tyo1Config == EndpointConfig(<<"https://", "tyo1.nozomi.temporal.xyz">>, "tokyo")

\* a list entry that is no object (null or undefined)
NullEntry == [obj |-> FALSE, url |-> Undefined, region |-> Undefined]

\* The hardcoded fallback list, abridged to its first two entries (the
\* auto-routed endpoint and the first direct endpoint).
NOZOMI_ENDPOINTS == <<AutoConfig, Pit1Config>>

RETRIES == 2
BACKOFF_MS == 500

----------------------------------------------------------------------------
(* Manifest resolution: fetchEndpointsFromUrl, getEndpointConfigs *)

\* a manifest body: the parsed JSON, whose endpoints field is undefined, null,
\* some other non-array value, or an array of entries
Manifest(kind, items) == [isNull |-> FALSE, endpoints |-> [kind |-> kind, items |-> items]]
NullManifest == [isNull |-> TRUE, endpoints |-> [kind |-> "undefined", items |-> <<>>]]

CustomUrl == <<"https://", "custom.nozomi.xyz">>
Custom2Url == <<"https://", "custom2.nozomi.xyz">>

\* the entries a manifest array can hold
ManifestEntries ==
    { NullEntry,
      [obj |-> TRUE, url |-> Undefined, region |-> Str(<<"custom">>)],
      [obj |-> TRUE, url |-> Num(<<"123">>), region |-> Str(<<"custom">>)],
      [obj |-> TRUE, url |-> Str(<<>>), region |-> Str(<<"custom">>)],
      [obj |-> TRUE, url |-> Str(<<"http://", "insecure.nozomi.xyz">>), region |-> Str(<<"custom">>)],
      [obj |-> TRUE, url |-> Str(CustomUrl), region |-> Undefined],
      [obj |-> TRUE, url |-> Str(CustomUrl), region |-> Num(<<"5">>)],
      EndpointConfig(CustomUrl, "custom"),
      EndpointConfig(Custom2Url, "custom") }

SeqsUpTo(S, n) == UNION { [1..k -> S] : k \in 0..n }

ManifestBodies ==
    { NullManifest, Manifest("undefined", <<>>), Manifest("null", <<>>), Manifest("other", <<>>) }
    \cup { Manifest("array", items) : items \in SeqsUpTo(ManifestEntries, MaxManifest) }

\* what one fetch attempt can do: fetch() rejects, throws synchronously, is
\* aborted by the timer, answers with a non-2xx status, answers 2xx with a body
\* json() rejects on, answers 2xx with a body that never completes, or answers
\* 2xx with a JSON body
FetchFailures == {"rejects", "throws", "timeout", "notOk", "jsonRejects"}
NoResponse == [kind |-> "none", body |-> NullManifest]
FetchOutcomes ==
    { [kind |-> k, body |-> NullManifest] : k \in FetchFailures \cup {"bodyHangs"} }
    \cup { [kind |-> "ok", body |-> b] : b \in ManifestBodies }

\* IsValidEntry without the scheme test
IsValidEntryAnyScheme(e) ==
    /\ e.obj
    /\ Truthy(e.url)
    /\ e.url.type = "string"
    /\ Truthy(e.region)

\* the filter predicate of line 91
IsValidEntry(e) ==
    /\ e.obj
    /\ Truthy(e.url)
    /\ e.url.type = "string"
    /\ StartsWith(e.url.val, "https://")
    /\ Truthy(e.region)

\* lines 89-92: the entries of a manifest that pass the filter, in order
ValidEntries(manifest) ==
    IF ~manifest.isNull /\ manifest.endpoints.kind = "array"
    THEN SelectSeq(manifest.endpoints.items, IsValidEntry)
    ELSE <<>>

\* lines 82-97: what an attempt yields: its valid entries, or <<>> when the
\* attempt is a failure (anything caught, a non-2xx status, no valid entry)
AttemptYield(out) == IF out.kind = "ok" THEN ValidEntries(out.body) ELSE <<>>

\* HasNextAttempt with the loop bound off by one (attempt < retries)
HasNextAttemptShort(a) == a + 1 < RETRIES

\* line 76: is there another attempt after attempt a
HasNextAttempt(a) == a + 1 <= RETRIES

\* line 77: the sleep before attempt a
BackoffDelay(a) == a * BACKOFF_MS

\* GetEndpointConfigs adding the hardcoded list to the remote one
GetEndpointConfigsMerged(r) == r \o NOZOMI_ENDPOINTS

\* line 105: the list getEndpointConfigs returns for the resolver's result
\* (<<>> stands for null)
GetEndpointConfigs(r) == IF Len(r) > 0 THEN r ELSE NOZOMI_ENDPOINTS

----------------------------------------------------------------------------
(* Probing: measurePing, pingEndpoint *)

ProbeFailures == {"notOk", "rejects", "throws", "timeout"}
ProbeOutcomes ==
    { [kind |-> "ok", t |-> t] : t \in Times }
    \cup { [kind |-> k, t |-> 0] : k \in ProbeFailures }

\* StripTrailingSlashes removing one slash only
StripOneTrailingSlash(s) ==
    IF s # <<>> /\ s[Len(s)] = "/" THEN SubSeq(s, 1, Len(s) - 1) ELSE s

\* url.replace(/\/+$/, ''): the url without its trailing slashes
RECURSIVE StripTrailingSlashes(_)
StripTrailingSlashes(s) ==
    IF s # <<>> /\ s[Len(s)] = "/" THEN StripTrailingSlashes(SubSeq(s, 1, Len(s) - 1)) ELSE s

\* line 109: the url measurePing sends its GET to
PingUrl(url, endpoint) == StripTrailingSlashes(url) \o endpoint

\* MeasurePing giving, for a request aborted by the timer, a time and not
\* Infinity
MeasurePingAbortTimed(out) ==
    IF out.kind = "ok" THEN out.t ELSE IF out.kind = "timeout" THEN 1 ELSE Infinity

\* lines 114-121: the value measurePing returns for an outcome of its fetch
MeasurePing(out) == IF out.kind = "ok" THEN out.t ELSE Infinity

\* line 109 and line 133/138: reading config.url of a non-object, or calling
\* replace on a url that is no string, throws outside any try
ProberThrows(config) == ~config.obj \/ config.url.type # "string"

\* MinOf taking the first time for the least
MinOfFirst(s) == IF s = <<>> THEN Infinity ELSE s[1]

RECURSIVE MinOf(_)
MinOf(s) == IF s = <<>> THEN Infinity ELSE Min2(s[1], MinOf(Tail(s)))

\* PingResult taking the minimum over the warmup times as well
PingResultCountingWarmups(config, w, t) ==
    [url |-> config.url, region |-> config.region, minTime |-> MinOf(w \o t),
     times |-> t, warmupTimes |-> w]

\* lines 141-142
PingResult(config, w, t) ==
    [url |-> config.url, region |-> config.region, minTime |-> MinOf(t),
     times |-> t, warmupTimes |-> w]

----------------------------------------------------------------------------
(* Options: lines 266-272 *)

Clamp(lo, hi, x) == Max2(lo, Min2(hi, x))

\* PingCountOf without the clamp
PingCountOfUnclamped(o) == Coalesce(o.pingCount, 5)

PingCountOf(o) == Clamp(1, 20, Coalesce(o.pingCount, 5))
TopCountOf(o) == Clamp(1, 10, Coalesce(o.topCount, 2))
TimeoutOf(o) == Clamp(1000, 30000, Coalesce(o.timeout, 5000))
WarmupCountOf(o) == Clamp(0, 5, Coalesce(o.warmupCount, 2))
IncludeAutoRoutedOf(o) == Coalesce(o.includeAutoRouted, TRUE)
EndpointPathOf(o) == Coalesce(o.endpoint, <<"/ping">>)

pingCount == PingCountOf(opts)
topCount == TopCountOf(opts)
timeout == TimeoutOf(opts)
warmupCount == WarmupCountOf(opts)
includeAutoRouted == IncludeAutoRoutedOf(opts)

----------------------------------------------------------------------------
(* Ranking: lines 283-326 *)

AutoRegion == Str(<<"auto">>)

SyntheticAuto ==
    [url |-> Str(NOZOMI_AUTO_ENDPOINT), region |-> AutoRegion, minTime |-> Infinity,
     times |-> <<>>, warmupTimes |-> <<>>]

\* IsReachable without the filter of line 285
IsReachableUnfiltered(r) == TRUE

IsReachable(r) == r.minTime # Infinity /\ r.minTime < Infinity

\* Array.prototype.sort is stable: r goes after every element not slower than it
RECURSIVE InsertByMinTime(_, _)
InsertByMinTime(s, r) ==
    IF s = <<>> THEN <<r>>
    ELSE IF s[1].minTime - r.minTime <= 0 THEN <<s[1]>> \o InsertByMinTime(Tail(s), r)
    ELSE <<r>> \o s

RECURSIVE SortByMinTime(_)
SortByMinTime(s) ==
    IF s = <<>> THEN <<>>
    ELSE InsertByMinTime(SortByMinTime(SubSeq(s, 1, Len(s) - 1)), s[Len(s)])

\* ValidResults keeping the unreachable results in the sorted list
ValidResultsUnfiltered(results) == SortByMinTime(results)

\* lines 284-286
ValidResults(results) == SortByMinTime(SelectSeq(results, IsReachable))

\* DedupByRegion keeping the last entry of each region instead of the first
DedupByRegionKeepLast(s) ==
    LET keep(i) == \A j \in (i + 1)..Len(s) : s[j].region # s[i].region
        RECURSIVE from(_)
        from(i) == IF i > Len(s) THEN <<>>
                   ELSE IF keep(i) THEN <<s[i]>> \o from(i + 1) ELSE from(i + 1)
    IN from(1)

\* lines 293-301 and 308-316: the first entry of each region
DedupByRegion(s) ==
    LET keep(i) == \A j \in 1..(i - 1) : s[j].region # s[i].region
        RECURSIVE from(_)
        from(i) == IF i > Len(s) THEN <<>>
                   ELSE IF keep(i) THEN <<s[i]>> \o from(i + 1) ELSE from(i + 1)
    IN from(1)

\* slice taking one entry too many
SliceOneMore(s, n) == SubSeq(s, 1, Min2(n + 1, Len(s)))

\* Array.prototype.slice(0, n)
Slice(s, n) == SubSeq(s, 1, Min2(n, Len(s)))

NonAuto(s) == SelectSeq(s, LAMBDA r : r.region # AutoRegion)

\* line 305-306: the measured auto result, or the synthetic one
AutoEntry(valid) ==
    LET autos == SelectSeq(valid, LAMBDA r : r.region = AutoRegion)
    IN IF autos # <<>> THEN autos[1] ELSE SyntheticAuto

\* TopResults truncating after the auto entry is appended
TopResultsSliceLast(valid, top, includeAuto) ==
    IF includeAuto
    THEN Slice(Append(DedupByRegion(NonAuto(valid)), AutoEntry(valid)), top)
    ELSE Slice(DedupByRegion(valid), top)

\* lines 291-319
TopResults(valid, top, includeAuto) ==
    IF includeAuto
    THEN Append(Slice(DedupByRegion(NonAuto(valid)), top), AutoEntry(valid))
    ELSE Slice(DedupByRegion(valid), top)

\* lines 322-324
AtLeastOne(top) == IF Len(top) = 0 THEN <<SyntheticAuto>> ELSE top

Rank(results, top, includeAuto) ==
    AtLeastOne(TopResults(ValidResults(results), top, includeAuto))

\* OnFailure without the catch-all: the failure rejects the promise
OnFailureRethrown == [settled |-> "rejected", returned |-> <<>>]

\* lines 327-329: what the catch-all makes of a failure inside the try
OnFailure == [settled |-> "fulfilled", returned |-> <<SyntheticAuto>>]

----------------------------------------------------------------------------
(* Inputs of a call *)

\* the descriptors a caller-supplied list can hold
SuppliedConfigs == {AutoConfig, Pit1Config, PitConfig, Tyo1Config, NullEntry}

\* options.endpoints: findFastestEndpoints(null) ("nullOptions"), absent,
\* a truthy value that is no array ("other"), or an array
EndpointsOptions ==
    { [kind |-> k, items |-> <<>>] : k \in {"nullOptions", "undefined", "other"} }
    \cup { [kind |-> "array", items |-> l] : l \in SeqsUpTo(SuppliedConfigs, MaxProbes) }

OptionValues ==
    [ pingCount : {Given(1), Given(2)},
      warmupCount : {Given(0), Given(1)},
      topCount : {Absent, Given(0), Given(1)},
      timeout : {Absent},
      includeAutoRouted : {AbsentFlag, GivenFlag(TRUE), GivenFlag(FALSE)},
      endpoint : {AbsentString},
      onResult : BOOLEAN ]

\* SuppliedEndpoints taking an empty array for no list
SuppliedEndpointsNonEmpty(e) == e.kind = "other" \/ (e.kind = "array" /\ Len(e.items) > 0)

\* line 263: is options.endpoints truthy (an array is, even an empty one)
SuppliedEndpoints(e) == e.kind \in {"other", "array"}

\* line 264: anything but a non-empty array is replaced by the hardcoded list
NormaliseConfigs(c) ==
    IF ~c.isArray \/ Len(c.items) = 0 THEN NOZOMI_ENDPOINTS ELSE c.items

UnreadOptions ==
    [pingCount |-> Absent, warmupCount |-> Absent, topCount |-> Absent, timeout |-> Absent,
     includeAutoRouted |-> AbsentFlag, endpoint |-> AbsentString, onResult |-> FALSE]

candidates == configs.items

\* results in the order in which the probers returned
resultsAsCompleted ==
    [k \in 1..Len(candidates) |->
        LET i == IF k <= Len(completed) THEN completed[k] ELSE k
        IN PingResult(candidates[i], warmupTimes[i], times[i])]

\* the array Promise.all resolves to (line 275): the results in the order of
\* the candidates, whatever the order in which the probers returned
results == [i \in 1..Len(candidates) |-> PingResult(candidates[i], warmupTimes[i], times[i])]

----------------------------------------------------------------------------
(* The call *)

\* the locals of a call that has not been made
PeerIdle ==
    [pc |-> "idle", opts |-> UnreadOptions, attempt |-> 0, configs |-> <<>>,
     warmupTimes |-> <<>>, times |-> <<>>, settled |-> "pending", returned |-> <<>>]

\* the invocations of NozomiClient.getEndpoints that overlap
Callers == {"A", "B"}

\* the state of a call when it is made
InitCall ==
    /\ pc = "start"
    /\ settled = "pending"
    /\ returned = <<>>
    /\ endpointsOpt = [kind |-> "undefined", items |-> <<>>]
    /\ opts = UnreadOptions
    /\ attempt = 0
    /\ manifestRequests = 0
    /\ sleeps = <<>>
    /\ failedFetches = 0
    /\ response = NoResponse
    /\ remote = <<>>
    /\ configs = [isArray |-> TRUE, items |-> <<>>]
    /\ warmupTimes = <<>>
    /\ times = <<>>
    /\ ph = <<>>
    /\ notified = <<>>
    /\ observerThrew = FALSE
    /\ requests = {}
    /\ issued = <<>>
    /\ completed = <<>>
    /\ timers = {}

\* part_000 lines 31-37 and part_001 lines 26-30: the module state of the
\* older revisions when the module is loaded, env being the value of
\* process.env.NOZOMI_ENDPOINTS_URL (<<>> when it is not set); no call of
\* getEndpoints has been made. fresh stands for now < cacheExpiry. Kept for
\* the record: the url the cached list was fetched from (cachedFrom), the
\* urls of the attempt that settled last (fetchedUrls), the url the returned
\* list was fetched from (gotFrom) and the url configured when it was returned
\* (gotUnder)
RegistryInit(env) ==
    [ remoteEndpointsUrl |-> <<>>, env |-> env, cachedEndpoints |-> <<>>, fresh |-> FALSE,
      disabled |-> FALSE, pc |-> "idle", url |-> <<>>, attempt |-> 0, whenDisabled |-> FALSE,
      fetched |-> {}, calls |-> 0, got |-> <<>>,
      cachedFrom |-> <<>>, fetchedUrls |-> <<>>, gotFrom |-> <<>>, gotUnder |-> <<>> ]

\* no send has been asked for
SenderIdle ==
    [ mode |-> "none", pc |-> "idle", timeout |-> 0, onError |-> FALSE, endpoints |-> <<>>,
      st |-> <<>>, inflight |-> <<>>, late |-> <<>>, hasSucceeded |-> FALSE, errors |-> <<>>,
      settled |-> "pending", result |-> 0 ]

\* getFastestEndpointUrl has not returned
NoUrl == [state |-> "pending", url |-> <<>>]

\* no other call is running and no client method has been invoked
InitIdle ==
    /\ peer = PeerIdle
    /\ cachedEndpoints = <<>>
    /\ callers = [c \in Callers |-> [pc |-> "idle", got |-> <<>>, cleared |-> FALSE]]
    /\ discoveries = 0
    /\ urlResult = NoUrl
    /\ sender = SenderIdle

InitBeyond ==
    /\ InitIdle
    /\ clientId = <<>>
    /\ registry = RegistryInit(<<>>)

Init ==
    /\ InitCall
    /\ InitBeyond
    /\ failedEndpoints = {}
    /\ failedAgo = <<>>
    /\ lapsed = {}

\* line 263: options.endpoints || await getEndpointConfigs(...). Reading a
\* property of null throws inside the try; a truthy value is taken as it is;
\* otherwise the first manifest fetch is issued.
StartCore(E) ==
    /\ pc = "start"
    /\ \E e \in E :
        /\ endpointsOpt' = e
        /\ CASE e.kind = "nullOptions" ->
                  /\ pc' = "done"
                  /\ settled' = OnFailure.settled
                  /\ returned' = OnFailure.returned
                  /\ UNCHANGED configs
             [] e.kind # "nullOptions" /\ SuppliedEndpoints(e) ->
                  /\ pc' = "resolved"
                  /\ configs' = [isArray |-> e.kind = "array", items |-> e.items]
                  /\ UNCHANGED callVars
             [] OTHER ->
                  /\ pc' = "fetch"
                  /\ UNCHANGED <<configs, callVars>>
    /\ UNCHANGED <<opts, manifestVars, proberVars>>

StartWith(E) == StartCore(E) /\ UNCHANGED otherVars

Start == StartWith(EndpointsOptions)

\* lines 79-97 and 105: one fetch attempt settles. An attempt that yields valid
\* entries returns them; a failed one goes to the next iteration, or, after the
\* last, makes getEndpointConfigs return the hardcoded list. A 2xx response
\* whose body never completes leaves the attempt awaiting json(), its timer
\* already cleared.
ManifestFetchWith(F) ==
    /\ pc = "fetch"
    /\ \E out \in F :
        /\ manifestRequests' = manifestRequests + 1
        /\ response' = out
        /\ IF out.kind = "bodyHangs"
           THEN pc' = "awaitBody" /\ UNCHANGED <<attempt, failedFetches, remote, configs>>
           ELSE IF Len(AttemptYield(out)) > 0
           THEN /\ pc' = "resolved"
                /\ remote' = AttemptYield(out)
                /\ configs' = [isArray |-> TRUE, items |-> GetEndpointConfigs(AttemptYield(out))]
                /\ UNCHANGED <<attempt, failedFetches>>
           ELSE IF HasNextAttempt(attempt)
           THEN /\ pc' = "backoff"
                /\ attempt' = attempt + 1
                /\ failedFetches' = failedFetches + 1
                /\ UNCHANGED <<remote, configs>>
           ELSE /\ pc' = "resolved"
                /\ failedFetches' = failedFetches + 1
                /\ remote' = <<>>
                /\ configs' = [isArray |-> TRUE, items |-> GetEndpointConfigs(<<>>)]
                /\ UNCHANGED attempt
    /\ UNCHANGED <<sleeps, callVars, optVars, proberVars>>
    /\ UNCHANGED otherVars

ManifestFetch == ManifestFetchWith(FetchOutcomes)

\* lines 81, 84 and 94: the abort timer of an attempt is armed before fetch is
\* called and cleared as soon as fetch settles, before the status is looked at
\* and the body is read
ManifestTimerArmed == pc = "fetch"

\* line 77: the sleep before a retry ends and the next fetch is issued
Backoff ==
    /\ pc = "backoff"
    /\ sleeps' = Append(sleeps, BackoffDelay(attempt))
    /\ pc' = "fetch"
    /\ UNCHANGED <<attempt, manifestRequests, failedFetches, response, remote, configs,
                   callVars, optVars, proberVars>>
    /\ UNCHANGED otherVars

\* the options under which n candidates are probed with at most MaxProbes
\* requests in total
WithinBudget(o, n) == n * (WarmupCountOf(o) + PingCountOf(o)) <= MaxProbes

\* lines 264-281: the candidate list is normalised, the options are read and
\* one prober per candidate is started, which issues its first request at
\* once (lines 109-115); a prober whose descriptor cannot be read is rejected
\* at once.
ConfigureWith(O, budgeted) ==
    /\ pc = "resolved"
    /\ LET list == NormaliseConfigs(configs)
           started == { i \in 1..Len(list) : ~ProberThrows(list[i]) }
       IN /\ \E o \in O :
               /\ budgeted => WithinBudget(o, Len(list))
               /\ opts' = o
               /\ requests' = { PingUrl(list[i].url.val, EndpointPathOf(o)) : i \in started }
               /\ timers' = IF started = {} THEN {} ELSE {TimeoutOf(o)}
          /\ configs' = [isArray |-> TRUE, items |-> list]
          /\ ph' = [i \in 1..Len(list) |-> IF ProberThrows(list[i]) THEN "rejected" ELSE "probing"]
          /\ warmupTimes' = [i \in 1..Len(list) |-> <<>>]
          /\ times' = [i \in 1..Len(list) |-> <<>>]
          /\ notified' = [i \in 1..Len(list) |-> 0]
          /\ issued' = [i \in 1..Len(list) |-> IF i \in started THEN 1 ELSE 0]
          /\ completed' = <<>>
    /\ response' = NoResponse
    /\ pc' = "probing"
    /\ UNCHANGED <<attempt, manifestRequests, sleeps, failedFetches, remote, endpointsOpt,
                   observerThrew, callVars>>
    /\ UNCHANGED otherVars

Configure == ConfigureWith(OptionValues, TRUE)

\* InWarmup with the loop of warmups never entered
InWarmupNever(w, wc) == FALSE

\* line 132: the loop of warmups goes on while fewer than warmupCount are made
InWarmup(w, wc) == Len(w) < wc

\* ObserverCalls with the observer never called
ObserverCallsNever(o) == 0

\* line 278: options.onResult?.(result) calls the observer once, if there is one
ObserverCalls(o) == IF o.onResult THEN 1 ELSE 0

\* AfterObserver without the try/catch around the observer
AfterObserverUncaught(threw) == IF threw THEN "rejected" ELSE "done"

\* line 278: whatever the observer throws is caught, and the prober's promise
\* is fulfilled with the result
AfterObserver(threw) == "done"

\* lines 131-142 and 277-279: the request in flight for candidate i settles.
\* Its time goes to warmupTimes while warmups remain, to times afterwards, and
\* the next request is issued; after the last measurement the result is built
\* and onResult, if given, is invoked. Probers keep running whatever has
\* become of the call.
ProbeWith(i, P) ==
    /\ pc \in {"probing", "done"}
    /\ ph[i] = "probing"
    /\ \E out \in P, threw \in BOOLEAN :
        LET t == MeasurePing(out)
            inWarmup == InWarmup(warmupTimes[i], warmupCount)
            w2 == IF inWarmup THEN Append(warmupTimes[i], t) ELSE warmupTimes[i]
            t2 == IF inWarmup THEN times[i] ELSE Append(times[i], t)
            finished == ~InWarmup(w2, warmupCount) /\ Len(t2) = pingCount
        IN /\ threw => (finished /\ opts.onResult)
           /\ warmupTimes' = [warmupTimes EXCEPT ![i] = w2]
           /\ times' = [times EXCEPT ![i] = t2]
           /\ ph' = [ph EXCEPT ![i] = IF finished THEN AfterObserver(threw) ELSE "probing"]
           /\ notified' = [notified EXCEPT ![i] = IF finished THEN @ + ObserverCalls(opts) ELSE @]
           /\ issued' = [issued EXCEPT ![i] = IF finished THEN @ ELSE @ + 1]
           /\ completed' = IF finished THEN Append(completed, i) ELSE completed
           /\ observerThrew' = (observerThrew \/ threw)
    /\ UNCHANGED <<pc, configs, callVars, optVars, manifestVars, requests, timers>>
    /\ UNCHANGED otherVars

Probe(i) == ProbeWith(i, ProbeOutcomes)

\* lines 275-326: Promise.all is fulfilled once every prober is; the results are
\* ranked and returned
Join ==
    /\ pc = "probing"
    /\ \A i \in DOMAIN ph : ph[i] = "done"
    /\ settled' = "fulfilled"
    /\ returned' = Rank(results, topCount, includeAutoRouted)
    /\ pc' = "done"
    /\ UNCHANGED <<configs, optVars, manifestVars, proberVars>>
    /\ UNCHANGED otherVars

\* lines 275 and 327-329: Promise.all is rejected as soon as one prober is, and
\* the catch-all returns the synthetic auto entry
CatchAll ==
    /\ pc = "probing"
    /\ \E i \in DOMAIN ph : ph[i] = "rejected"
    /\ settled' = OnFailure.settled
    /\ returned' = OnFailure.returned
    /\ pc' = "done"
    /\ UNCHANGED <<configs, optVars, manifestVars, proberVars>>
    /\ UNCHANGED otherVars

Next ==
    \/ Start
    \/ ManifestFetch
    \/ Backoff
    \/ Configure
    \/ \E i \in DOMAIN ph : Probe(i)
    \/ Join
    \/ CatchAll

Spec == Init /\ [][Next]_vars

----------------------------------------------------------------------------
(* The options of a call: one supplied endpoint probed under counts and     *)
(* timeouts inside, on and beyond the documented ranges                     *)

WideOptionValues ==
    [ pingCount : {Absent, Given(-3), Given(0), Given(1), Given(7), Given(20), Given(21), Given(100)},
      warmupCount : {Absent, Given(-1), Given(0), Given(3), Given(5), Given(6), Given(50)},
      topCount : {Absent, Given(-1), Given(0), Given(1), Given(10), Given(11)},
      timeout : {Absent, Given(-1), Given(0), Given(999), Given(1000), Given(30000), Given(30001)},
      includeAutoRouted : {AbsentFlag},
      endpoint : {AbsentString},
      onResult : {FALSE} ]

StartOne == StartWith({[kind |-> "array", items |-> <<Tyo1Config>>]})

ConfigureWide == ConfigureWith(WideOptionValues, FALSE)

\* every request is answered 2xx after 1 ms
ProbeSteady(i) == ProbeWith(i, {[kind |-> "ok", t |-> 1]})

NextOptions ==
    \/ StartOne
    \/ ConfigureWide
    \/ \E i \in DOMAIN ph : ProbeSteady(i)
    \/ Join

SpecOptions == Init /\ [][NextOptions]_vars

----------------------------------------------------------------------------
(* Two calls of findFastestEndpoints running concurrently. The module keeps *)
(* no state between calls: all a call reads and writes are its own locals.  *)
(* The first call is the one above, the second is the peer; both are given  *)
(* a narrowed choice of inputs and outcomes.                                *)

thisCallVars == <<pc, callVars, optVars, manifestVars, configs, proberVars>>

NarrowEndpointsOptions ==
    { [kind |-> "undefined", items |-> <<>>],
      [kind |-> "array", items |-> <<AutoConfig, Pit1Config>>],
      [kind |-> "array", items |-> <<Pit1Config, NullEntry>>] }

NarrowOptionValues ==
    [ pingCount : {Given(1)},
      warmupCount : {Given(0)},
      topCount : {Absent},
      timeout : {Absent},
      includeAutoRouted : {AbsentFlag, GivenFlag(FALSE)},
      endpoint : {AbsentString},
      onResult : {TRUE} ]

NarrowFetchOutcomes ==
    { [kind |-> "notOk", body |-> NullManifest],
      [kind |-> "ok", body |-> Manifest("array", <<EndpointConfig(CustomUrl, "custom")>>)] }

NarrowProbeOutcomes == { [kind |-> "ok", t |-> 1], [kind |-> "notOk", t |-> 0] }
PeerProbeOutcomes == { [kind |-> "ok", t |-> 2], [kind |-> "timeout", t |-> 0] }

StartNarrow == StartWith(NarrowEndpointsOptions)
ManifestFetchNarrow == ManifestFetchWith(NarrowFetchOutcomes)
ConfigureNarrow == ConfigureWith(NarrowOptionValues, FALSE)
ProbeNarrow(i) == ProbeWith(i, NarrowProbeOutcomes)

PeerEndpointsOptions ==
    { [kind |-> "undefined", items |-> <<>>],
      [kind |-> "array", items |-> <<Pit1Config, Tyo1Config>>] }

PeerOptionValues ==
    [ pingCount : {Given(1)},
      warmupCount : {Given(0)},
      topCount : {Given(1), Given(3)},
      timeout : {Absent},
      includeAutoRouted : {AbsentFlag},
      endpoint : {AbsentString},
      onResult : {FALSE} ]

\* PeerResults reading the samples of the other call, as if the samples were
\* kept in a module-level variable
PeerResultsShared ==
    IF pc \in {"probing", "done"} /\ Len(times) = Len(candidates) THEN results ELSE <<>>

\* line 275: the array the peer's Promise.all resolves to
PeerResults ==
    [i \in 1..Len(peer.configs) |->
        PingResult(peer.configs[i], peer.warmupTimes[i], peer.times[i])]

\* lines 264-281 in the peer: the list is normalised and its probers started
PeerProbing(p, c) ==
    LET list == NormaliseConfigs(c)
    IN [p EXCEPT !.pc = "probing", !.configs = list,
                 !.warmupTimes = [i \in 1..Len(list) |-> <<>>],
                 !.times = [i \in 1..Len(list) |-> <<>>]]

\* line 263 in the peer: a supplied list is probed at once, without any await;
\* otherwise the first manifest fetch is issued
PeerStartCore ==
    /\ peer.pc = "idle"
    /\ \E e \in PeerEndpointsOptions, o \in PeerOptionValues :
        peer' = IF SuppliedEndpoints(e)
                THEN PeerProbing([peer EXCEPT !.opts = o],
                                 [isArray |-> e.kind = "array", items |-> e.items])
                ELSE [peer EXCEPT !.opts = o, !.pc = "fetch"]

PeerStart == PeerStartCore /\ UNCHANGED <<thisCallVars, failedEndpoints,
                                          failedAgo, lapsed, clientVars, legacyVars>>

\* lines 75-106 in the peer: one of its manifest fetch attempts settles
PeerManifestFetch ==
    /\ peer.pc = "fetch"
    /\ \E out \in NarrowFetchOutcomes :
        peer' = IF Len(AttemptYield(out)) > 0
                THEN PeerProbing(peer, [isArray |-> TRUE,
                                        items |-> GetEndpointConfigs(AttemptYield(out))])
                ELSE IF HasNextAttempt(peer.attempt)
                THEN [peer EXCEPT !.pc = "backoff", !.attempt = @ + 1]
                ELSE PeerProbing(peer, [isArray |-> TRUE, items |-> GetEndpointConfigs(<<>>)])
    /\ UNCHANGED <<thisCallVars, failedEndpoints, failedAgo, lapsed, clientVars, legacyVars>>

\* line 77 in the peer
PeerBackoff ==
    /\ peer.pc = "backoff"
    /\ peer' = [peer EXCEPT !.pc = "fetch"]
    /\ UNCHANGED <<thisCallVars, failedEndpoints, failedAgo, lapsed, clientVars, legacyVars>>

\* lines 131-139 in the peer: the request in flight for its candidate i settles
PeerProbe(i) ==
    /\ peer.pc = "probing"
    /\ Len(peer.times[i]) < PingCountOf(peer.opts)
    /\ \E out \in PeerProbeOutcomes :
        peer' = IF InWarmup(peer.warmupTimes[i], WarmupCountOf(peer.opts))
                THEN [peer EXCEPT !.warmupTimes[i] = Append(@, MeasurePing(out))]
                ELSE [peer EXCEPT !.times[i] = Append(@, MeasurePing(out))]
    /\ UNCHANGED <<thisCallVars, failedEndpoints, failedAgo, lapsed, clientVars, legacyVars>>

\* lines 275-326 in the peer: its Promise.all is fulfilled, its results ranked
PeerJoin ==
    /\ peer.pc = "probing"
    /\ \A i \in DOMAIN peer.times : Len(peer.times[i]) = PingCountOf(peer.opts)
    /\ peer' = [peer EXCEPT !.pc = "done", !.settled = "fulfilled",
                            !.returned = Rank(PeerResults, TopCountOf(peer.opts),
                                              IncludeAutoRoutedOf(peer.opts))]
    /\ UNCHANGED <<thisCallVars, failedEndpoints, failedAgo, lapsed, clientVars, legacyVars>>

NextConcurrent ==
    \/ StartNarrow
    \/ ManifestFetchNarrow
    \/ Backoff
    \/ ConfigureNarrow
    \/ \E i \in DOMAIN ph : ProbeNarrow(i)
    \/ Join
    \/ CatchAll
    \/ PeerStart
    \/ PeerManifestFetch
    \/ PeerBackoff
    \/ \E i \in DOMAIN peer.times : PeerProbe(i)
    \/ PeerJoin

SpecConcurrent == Init /\ [][NextConcurrent]_vars

----------------------------------------------------------------------------
(* A call one of whose candidates never answers: every request to the first *)
(* candidate ends with the abort by its timer                               *)

\* the candidate that never answers
Hung == 1

HungEndpointsOptions ==
    { [kind |-> "undefined", items |-> <<>>],
      [kind |-> "array", items |-> <<AutoConfig, Pit1Config>>],
      [kind |-> "array", items |-> <<Pit1Config, Tyo1Config>>] }

HungOptionValues ==
    [ pingCount : {Given(1), Given(2)},
      warmupCount : {Given(0), Given(1)},
      topCount : {Absent, Given(1)},
      timeout : {Absent},
      includeAutoRouted : {AbsentFlag, GivenFlag(FALSE)},
      endpoint : {AbsentString},
      onResult : {FALSE} ]

StartHung == StartWith(HungEndpointsOptions)
ConfigureHung == ConfigureWith(HungOptionValues, FALSE)

\* lines 111 and 118-120: the timer of a request to the candidate that never
\* answers fires and aborts it; the requests to the others settle in any way
ProbeHung(i) ==
    ProbeWith(i, IF i = Hung THEN { [kind |-> "timeout", t |-> 0] }
                 ELSE { [kind |-> "ok", t |-> 1], [kind |-> "ok", t |-> 2],
                        [kind |-> "notOk", t |-> 0] })

NextHung ==
    \/ StartHung
    \/ ManifestFetchNarrow
    \/ Backoff
    \/ ConfigureHung
    \/ \E i \in DOMAIN ph : ProbeHung(i)
    \/ Join

\* timers fire and pending steps of the event loop are run
SpecHung == Init /\ [][NextHung]_vars /\ WF_vars(NextHung)

----------------------------------------------------------------------------
(* A call whose probers all make warmup requests                            *)

WarmupEndpointsOptions ==
    { [kind |-> "undefined", items |-> <<>>],
      [kind |-> "array", items |-> <<AutoConfig, Pit1Config>>],
      [kind |-> "array", items |-> <<Pit1Config, Tyo1Config>>] }

WarmupOptionValues ==
    [ pingCount : {Given(1)},
      warmupCount : {Given(1), Given(2)},
      topCount : {Absent, Given(1)},
      timeout : {Absent},
      includeAutoRouted : {AbsentFlag, GivenFlag(FALSE)},
      endpoint : {AbsentString},
      onResult : {FALSE} ]

StartWarmup == StartWith(WarmupEndpointsOptions)
ConfigureWarmup == ConfigureWith(WarmupOptionValues, FALSE)
ProbeWarmup(i) == ProbeWith(i, { [kind |-> "ok", t |-> 1], [kind |-> "ok", t |-> 2],
                                 [kind |-> "notOk", t |-> 0] })

NextWarmup ==
    \/ StartWarmup
    \/ ManifestFetchNarrow
    \/ Backoff
    \/ ConfigureWarmup
    \/ \E i \in DOMAIN ph : ProbeWarmup(i)
    \/ Join

SpecWarmup == Init /\ [][NextWarmup]_vars

----------------------------------------------------------------------------
(* NozomiClient: getEndpoints with its cache, invoked twice on one client   *)
(* (the discovery of invocation A is the call above, that of invocation B   *)
(* the peer), and getFastestEndpointUrl                                     *)

ClientIds == { <<"key">> }

\* the constructor's options (NozomiClientOptions)
ClientDefaults ==
    [ pingCount : {Given(1)},
      warmupCount : {Given(0)},
      topCount : {Absent, Given(3)},
      timeout : {Absent},
      includeAutoRouted : {AbsentFlag, GivenFlag(FALSE)},
      endpoint : {AbsentString},
      onResult : {FALSE} ]

\* the options of one method call
ClientCallOptions ==
    [ pingCount : {Absent},
      warmupCount : {Absent},
      topCount : {Absent, Given(2)},
      timeout : {Absent},
      includeAutoRouted : {AbsentFlag},
      endpoint : {AbsentString},
      onResult : {FALSE} ]

\* MergeOptions without the trailing topCount: 1
MergeOptionsUnforced(d, o, forced) ==
    [ pingCount |-> IF o.pingCount.set THEN o.pingCount ELSE d.pingCount,
      warmupCount |-> IF o.warmupCount.set THEN o.warmupCount ELSE d.warmupCount,
      topCount |-> IF o.topCount.set THEN o.topCount ELSE d.topCount,
      timeout |-> IF o.timeout.set THEN o.timeout ELSE d.timeout,
      includeAutoRouted |-> IF o.includeAutoRouted.set THEN o.includeAutoRouted
                            ELSE d.includeAutoRouted,
      endpoint |-> IF o.endpoint.set THEN o.endpoint ELSE d.endpoint,
      onResult |-> o.onResult ]

\* lines 198 and 220: { ...this.defaultOptions, ...options }, followed in
\* getFastestEndpointUrl by topCount: 1 (forced)
MergeOptions(d, o, forced) ==
    [ pingCount |-> IF o.pingCount.set THEN o.pingCount ELSE d.pingCount,
      warmupCount |-> IF o.warmupCount.set THEN o.warmupCount ELSE d.warmupCount,
      topCount |-> IF forced.set THEN forced
                   ELSE IF o.topCount.set THEN o.topCount ELSE d.topCount,
      timeout |-> IF o.timeout.set THEN o.timeout ELSE d.timeout,
      includeAutoRouted |-> IF o.includeAutoRouted.set THEN o.includeAutoRouted
                            ELSE d.includeAutoRouted,
      endpoint |-> IF o.endpoint.set THEN o.endpoint ELSE d.endpoint,
      onResult |-> o.onResult ]

\* the options findFastestEndpoints is given by a method of the client
MergedOptionValues(forced) ==
    { MergeOptions(d, o, forced) : d \in ClientDefaults, o \in ClientCallOptions }

ConfigureMerged == ConfigureWith(MergedOptionValues(Absent), FALSE)
ConfigureForced == ConfigureWith(MergedOptionValues(Given(1)), FALSE)

\* lines 230-234, up to the await: invocation c of getEndpoints returns the
\* cached result if there is one, and starts a discovery otherwise
GetEndpoints(c) ==
    /\ callers[c].pc = "idle"
    /\ IF cachedEndpoints # <<>>
       THEN /\ callers' = [callers EXCEPT ![c].pc = "returned", ![c].got = cachedEndpoints]
            /\ UNCHANGED <<thisCallVars, peer, discoveries>>
       ELSE /\ callers' = [callers EXCEPT ![c].pc = "discovering"]
            /\ discoveries' = discoveries + 1
            /\ IF c = "A"
               THEN StartCore(NarrowEndpointsOptions) /\ UNCHANGED peer
               ELSE PeerStartCore /\ UNCHANGED thisCallVars
    /\ UNCHANGED <<failedEndpoints,
                   failedAgo, lapsed, cachedEndpoints, clientId, urlResult, legacyVars>>

\* lines 232-234, after the await: the discovery of invocation c is fulfilled;
\* its result is stored in the cache, and the cache is returned
GetEndpointsResume(c) ==
    /\ callers[c].pc = "discovering"
    /\ LET r == IF c = "A" THEN [settled |-> settled, returned |-> returned]
                ELSE [settled |-> peer.settled, returned |-> peer.returned]
       IN /\ r.settled = "fulfilled"
          /\ cachedEndpoints' = r.returned
          /\ callers' = [callers EXCEPT ![c].pc = "returned", ![c].got = r.returned]
    /\ UNCHANGED <<thisCallVars, peer, failedEndpoints,
                   failedAgo, lapsed, discoveries, clientId, urlResult,
                   legacyVars>>

\* lines 185-188: a client constructed with its key
InitClient ==
    /\ InitCall
    /\ InitIdle
    /\ failedEndpoints = {}
    /\ failedAgo = <<>>
    /\ lapsed = {}
    /\ clientId \in ClientIds
    /\ registry = RegistryInit(<<>>)

NextClient ==
    \/ \E c \in Callers : GetEndpoints(c)
    \/ ManifestFetchNarrow
    \/ Backoff
    \/ ConfigureMerged
    \/ \E i \in DOMAIN ph : ProbeNarrow(i)
    \/ Join
    \/ CatchAll
    \/ PeerManifestFetch
    \/ PeerBackoff
    \/ \E i \in DOMAIN peer.times : PeerProbe(i)
    \/ PeerJoin
    \/ \E c \in Callers : GetEndpointsResume(c)

SpecClient == InitClient /\ [][NextClient]_vars

\* lines 239-242, up to the await: invocation c is a call of refresh(), which
\* starts a discovery whatever the cache holds; GetEndpointsResume is what
\* follows its await (lines 240-241)
Refresh(c) ==
    /\ callers[c].pc = "idle"
    /\ callers' = [callers EXCEPT ![c].pc = "discovering"]
    /\ discoveries' = discoveries + 1
    /\ IF c = "A"
       THEN StartCore(NarrowEndpointsOptions) /\ UNCHANGED peer
       ELSE PeerStartCore /\ UNCHANGED thisCallVars
    /\ UNCHANGED <<failedEndpoints,
                   failedAgo, lapsed, cachedEndpoints, clientId, urlResult, legacyVars>>

\* lines 247-249: clearCache() empties the cache; the invocations that are
\* awaiting their discovery are noted
ClearCache ==
    /\ cachedEndpoints' = <<>>
    /\ callers' = [c \in Callers |->
                     IF callers[c].pc = "discovering"
                     THEN [callers[c] EXCEPT !.cleared = TRUE] ELSE callers[c]]
    /\ UNCHANGED <<thisCallVars, peer, failedEndpoints,
                   failedAgo, lapsed, discoveries, clientId, urlResult,
                   legacyVars>>

NextClearCache ==
    \/ NextClient
    \/ \E c \in Callers : Refresh(c)
    \/ ClearCache

SpecClearCache == InitClient /\ [][NextClearCache]_vars

\* a descriptor whose url ends with slashes
SlashConfig == EndpointConfig(CustomUrl \o <<"/", "/">>, "custom")

UrlEndpointsOptions ==
    { [kind |-> "undefined", items |-> <<>>],
      [kind |-> "array", items |-> <<AutoConfig, Pit1Config>>],
      [kind |-> "array", items |-> <<SlashConfig, Pit1Config>>],
      [kind |-> "array", items |-> <<Pit1Config, NullEntry>>] }

\* lines 207-210: the url of an endpoint, its trailing slashes stripped, with
\* the client's key
GetEndpointUrl(url) == StripTrailingSlashes(url) \o <<"/?c=">> \o clientId

\* lines 219-221, up to the await: the options are merged, topCount: 1 last,
\* and the discovery is started
GetFastestEndpointUrl == StartWith(UrlEndpointsOptions)

ProbeUrl(i) == ProbeWith(i, { [kind |-> "ok", t |-> 1], [kind |-> "ok", t |-> 2],
                              [kind |-> "notOk", t |-> 0] })

\* lines 221-222, after the await: the first entry of the result is given to
\* getEndpointUrl; a rejected discovery, no first entry or a url that is no
\* string rejects the promise
GetFastestEndpointUrlResume ==
    /\ pc = "done"
    /\ settled \in {"fulfilled", "rejected"}
    /\ urlResult.state = "pending"
    /\ urlResult' =
         IF settled = "fulfilled" /\ Len(returned) > 0 /\ returned[1].url.type = "string"
         THEN [state |-> "fulfilled", url |-> GetEndpointUrl(returned[1].url.val)]
         ELSE [state |-> "rejected", url |-> <<>>]
    /\ UNCHANGED <<thisCallVars, peer, failedEndpoints,
                   failedAgo, lapsed, cachedEndpoints, callers, discoveries,
                   clientId, legacyVars>>

NextUrl ==
    \/ GetFastestEndpointUrl
    \/ ManifestFetchNarrow
    \/ Backoff
    \/ ConfigureForced
    \/ \E i \in DOMAIN ph : ProbeUrl(i)
    \/ Join
    \/ CatchAll
    \/ GetFastestEndpointUrlResume

SpecUrl == InitClient /\ [][NextUrl]_vars

----------------------------------------------------------------------------
(* The url a probe is sent to: calls over urls that end with slashes, with   *)
(* and without a probe path in the options                                    *)

\* the urls of the candidates end with at most this many slashes
MaxSlashes == 3

RECURSIVE Slashes(_)
Slashes(n) == IF n = 0 THEN <<>> ELSE <<"/">> \o Slashes(n - 1)

TargetConfigs ==
    { EndpointConfig(CustomUrl \o Slashes(n), "custom") : n \in 0..MaxSlashes }
    \cup { EndpointConfig(Custom2Url \o Slashes(n), "custom2") : n \in {0, MaxSlashes} }

TargetEndpointsOptions ==
    { [kind |-> "array", items |-> <<c>>] : c \in TargetConfigs }
    \cup { [kind |-> "array", items |-> <<c, d>>] : c, d \in TargetConfigs }

\* options.endpoint: absent, '/health', or the empty string
TargetOptionValues ==
    [ pingCount : {Given(1)},
      warmupCount : {Given(0)},
      topCount : {Absent},
      timeout : {Absent},
      includeAutoRouted : {AbsentFlag},
      endpoint : {AbsentString, GivenString(<<"/health">>), GivenString(<<>>)},
      onResult : {FALSE} ]

StartTarget == StartWith(TargetEndpointsOptions)
ConfigureTarget == ConfigureWith(TargetOptionValues, FALSE)

NextTarget ==
    \/ StartTarget
    \/ ConfigureTarget
    \/ \E i \in DOMAIN ph : ProbeSteady(i)
    \/ Join

SpecTarget == Init /\ [][NextTarget]_vars

----------------------------------------------------------------------------
(* The cooldown-tracking revision (src/unnamed/part_000): one call of       *)
(* findFastestEndpoints over the caller's urls, with the module's record of *)
(* failed endpoints                                                          *)

\* the || operator on an optional number: undefined and 0 give the default
OrDefault(o, d) == IF o.set /\ o.v # 0 THEN o.v ELSE d

\* part_000 lines 410-413
ConfigPingCount(o) == Clamp(1, 20, OrDefault(o.pingCount, 5))
ConfigTopCount(o) == Clamp(1, 10, OrDefault(o.topCount, 2))
ConfigTimeout(o) == Clamp(1000, 30000, OrDefault(o.timeout, 5000))
ConfigWarmupCount(o) == Clamp(0, 5, OrDefault(o.warmupCount, 2))

\* getRegion, on the urls of the hardcoded list that the model uses: the
\* letters of the first host label, 'auto' for the auto-routed url
GetRegion(url) ==
    CASE url = NOZOMI_AUTO_ENDPOINT -> "auto"
      [] url = Pit1Config.url.val -> "pit"
      [] url = PitConfig.url.val -> "pit"
      [] url = Tyo1Config.url.val -> "tyo"

\* a url of options.urls, with the region the ranking derives from it
UrlConfig(url) == EndpointConfig(url, GetRegion(url))

LegacyUrls == { <<UrlConfig(Tyo1Config.url.val)>> }

LegacyOptionValues ==
    [ pingCount : {Absent, Given(0), Given(1), Given(2)},
      warmupCount : {Absent, Given(0), Given(1)},
      topCount : {Absent},
      timeout : {Absent},
      includeAutoRouted : {AbsentFlag, GivenFlag(FALSE)},
      endpoint : {AbsentString},
      onResult : {FALSE} ]

\* part_000 lines 385-433 and 300-307: the urls are taken from the options, the
\* configuration is sanitised and one pingUrl per url is started. A url marked
\* failed whose cooldown has not expired is skipped; one whose cooldown has
\* expired is unmarked and probed.
LegacyStartCore(U, O) ==
    /\ pc = "start"
    /\ \E urls \in U, o \in O :
       \E expired \in SUBSET { urls[i].url.val : i \in 1..Len(urls) } :
          LET cooling(i) == urls[i].url.val \in failedEndpoints \ expired
              started == { i \in 1..Len(urls) : ~cooling(i) }
          IN /\ expired \subseteq failedEndpoints
             /\ endpointsOpt' = [kind |-> "array", items |-> urls]
             /\ configs' = [isArray |-> TRUE, items |-> urls]
             /\ opts' = o
             /\ failedEndpoints' = failedEndpoints \ expired
             /\ ph' = [i \in 1..Len(urls) |-> IF cooling(i) THEN "skipped" ELSE "probing"]
             /\ warmupTimes' = [i \in 1..Len(urls) |-> <<>>]
             /\ times' = [i \in 1..Len(urls) |-> <<>>]
             /\ notified' = [i \in 1..Len(urls) |-> 0]
             /\ issued' = [i \in 1..Len(urls) |-> IF i \in started THEN 1 ELSE 0]
             /\ completed' = <<>>
             /\ requests' = { PingUrl(urls[i].url.val, EndpointPathOf(o)) : i \in started }
             /\ timers' = IF started = {} THEN {} ELSE {ConfigTimeout(o)}
    /\ pc' = "probing"
    /\ UNCHANGED <<callVars, manifestVars, observerThrew>>

LegacyStart ==
    LegacyStartCore(LegacyUrls, LegacyOptionValues) /\ UNCHANGED <<failedAgo, lapsed, beyondVars>>

\* ProbeFailed holding as soon as one measurement failed
ProbeFailedOnAny(t) == \E k \in 1..Len(t) : t[k] = Infinity

\* part_000 line 326: minTime === Infinity || times.every(t => t === Infinity)
ProbeFailed(t) == MinOf(t) = Infinity \/ \A k \in 1..Len(t) : t[k] = Infinity

\* part_000 lines 308-330: the request in flight for url i settles; after the
\* last measurement the url is marked failed when no measurement succeeded and
\* unmarked otherwise.
LegacyProbeCore(i) ==
    /\ pc \in {"probing", "done"}
    /\ ph[i] = "probing"
    /\ \E out \in { [kind |-> "ok", t |-> 1], [kind |-> "notOk", t |-> 0] } :
        LET t == MeasurePing(out)
            inWarmup == Len(warmupTimes[i]) < ConfigWarmupCount(opts)
            w2 == IF inWarmup THEN Append(warmupTimes[i], t) ELSE warmupTimes[i]
            t2 == IF inWarmup THEN times[i] ELSE Append(times[i], t)
            finished == Len(w2) >= ConfigWarmupCount(opts) /\ Len(t2) = ConfigPingCount(opts)
            url == candidates[i].url.val
        IN /\ warmupTimes' = [warmupTimes EXCEPT ![i] = w2]
           /\ times' = [times EXCEPT ![i] = t2]
           /\ ph' = [ph EXCEPT ![i] = IF finished THEN "done" ELSE "probing"]
           /\ issued' = [issued EXCEPT ![i] = IF finished THEN @ ELSE @ + 1]
           /\ completed' = IF finished THEN Append(completed, i) ELSE completed
           /\ failedEndpoints' =
                IF ~finished THEN failedEndpoints
                ELSE IF ProbeFailed(t2) THEN failedEndpoints \cup {url}
                ELSE failedEndpoints \ {url}
    /\ UNCHANGED <<pc, configs, callVars, optVars, manifestVars, notified, observerThrew,
                   requests, timers, beyondVars>>

LegacyProbe(i) == LegacyProbeCore(i) /\ UNCHANGED <<failedAgo, lapsed>>

\* part_000 lines 415-478: every pingUrl has returned; the results are ranked
\* as in the current revision, the region of a result being getRegion(url)
LegacyJoin ==
    /\ pc = "probing"
    /\ \A i \in DOMAIN ph : ph[i] \in {"done", "skipped"}
    /\ settled' = "fulfilled"
    /\ returned' = Rank(results, ConfigTopCount(opts), Coalesce(opts.includeAutoRouted, TRUE))
    /\ pc' = "done"
    /\ UNCHANGED <<configs, optVars, manifestVars, proberVars, otherVars>>

InitLegacy ==
    /\ InitCall
    /\ InitBeyond
    /\ failedEndpoints \in SUBSET { Tyo1Config.url.val }
    /\ failedAgo = <<>>
    /\ lapsed = {}

NextLegacy ==
    \/ LegacyStart
    \/ \E i \in DOMAIN ph : LegacyProbe(i)
    \/ LegacyJoin

SpecLegacy == InitLegacy /\ [][NextLegacy]_vars

----------------------------------------------------------------------------
(* The cooldown window (src/unnamed/part_000): calls of findFastestEndpoints *)
(* one after the other while time passes. Date.now() - failedAt is kept per  *)
(* marked url, counted in steps of half the cooldown.                        *)

\* part_000 line 41
FAILURE_COOLDOWN_MS == 60 * 1000

\* the time that passes in one step of the clock
TickMs == FAILURE_COOLDOWN_MS \div 2

\* the count at which the clock stops: the first one beyond the cooldown
OldestAgo == (FAILURE_COOLDOWN_MS \div TickMs) + 1

\* CooldownExpired holding from the limit of the window on
CooldownExpiredAtLimit(ago) == ago * TickMs >= FAILURE_COOLDOWN_MS

\* part_000 line 49: Date.now() - failedAt > FAILURE_COOLDOWN_MS
CooldownExpired(ago) == ago * TickMs > FAILURE_COOLDOWN_MS

\* failedEndpoints.delete(url)
WithoutUrl(m, url) == [u \in DOMAIN m \ {url} |-> m[u]]

\* AfterCooldownCheck recording the time of the check for a url it keeps
AfterCooldownCheckRestamped(m, url) ==
    IF url \notin DOMAIN m THEN m
    ELSE IF CooldownExpired(m[url]) THEN WithoutUrl(m, url)
    ELSE [m EXCEPT ![url] = 0]

\* part_000 lines 46-54: the map after isEndpointInCooldown(url), which
\* deletes an entry whose cooldown has expired
AfterCooldownCheck(m, url) ==
    IF url \notin DOMAIN m THEN m
    ELSE IF CooldownExpired(m[url]) THEN WithoutUrl(m, url)
    ELSE m

\* the map after the checks of the urls of a call, made in list order
RECURSIVE AfterCooldownChecks(_, _)
AfterCooldownChecks(m, urls) ==
    IF urls = <<>> THEN m
    ELSE AfterCooldownChecks(AfterCooldownCheck(m, urls[1].url.val), Tail(urls))

\* part_000 lines 59-61: failedEndpoints.set(url, Date.now())
MarkEndpointFailed(m, url) == [u \in DOMAIN m \cup {url} |-> IF u = url THEN 0 ELSE m[u]]

\* part_000 lines 66-68
MarkEndpointSucceeded(m, url) == WithoutUrl(m, url)

CooldownUrls ==
    { <<UrlConfig(Tyo1Config.url.val)>>,
      <<UrlConfig(Tyo1Config.url.val), UrlConfig(Pit1Config.url.val)>> }

CooldownOptionValues ==
    [ pingCount : {Given(1), Given(2)},
      warmupCount : {Given(1)},
      topCount : {Absent},
      timeout : {Absent},
      includeAutoRouted : {AbsentFlag, GivenFlag(FALSE)},
      endpoint : {AbsentString},
      onResult : {FALSE} ]

\* part_000 lines 384-433, 302-306 and 46-54: a call starts; the url whose
\* failure is more than FAILURE_COOLDOWN_MS old is deleted from the map and
\* probed, the one whose failure is younger is skipped
CooldownStart ==
    /\ LegacyStartCore(CooldownUrls, CooldownOptionValues)
    /\ failedAgo' = AfterCooldownChecks(failedAgo, configs'.items)
    /\ failedEndpoints' = DOMAIN failedAgo'
    /\ lapsed' = lapsed \cup (DOMAIN failedAgo \ DOMAIN failedAgo')
    /\ UNCHANGED beyondVars

\* part_000 lines 308-330: as LegacyProbe, the time of the failure being
\* recorded
CooldownProbe(i) ==
    /\ LegacyProbeCore(i)
    /\ failedAgo' =
         IF ph'[i] # "done" THEN failedAgo
         ELSE IF ProbeFailed(times'[i]) THEN MarkEndpointFailed(failedAgo, candidates[i].url.val)
         ELSE MarkEndpointSucceeded(failedAgo, candidates[i].url.val)
    /\ UNCHANGED lapsed

\* half a cooldown passes
CooldownElapses ==
    /\ \E u \in DOMAIN failedAgo : failedAgo[u] < OldestAgo
    /\ failedAgo' = [u \in DOMAIN failedAgo |-> Min2(failedAgo[u] + 1, OldestAgo)]
    /\ UNCHANGED <<thisCallVars, failedEndpoints, lapsed, beyondVars>>

\* the call has returned and findFastestEndpoints is called again
CallAgain ==
    /\ pc = "done"
    /\ pc' = "start"
    /\ settled' = "pending"
    /\ returned' = <<>>
    /\ endpointsOpt' = [kind |-> "undefined", items |-> <<>>]
    /\ opts' = UnreadOptions
    /\ configs' = [isArray |-> TRUE, items |-> <<>>]
    /\ warmupTimes' = <<>>
    /\ times' = <<>>
    /\ ph' = <<>>
    /\ notified' = <<>>
    /\ requests' = {}
    /\ issued' = <<>>
    /\ completed' = <<>>
    /\ timers' = {}
    /\ UNCHANGED <<manifestVars, observerThrew, otherVars>>

InitCooldown ==
    /\ InitCall
    /\ InitBeyond
    /\ failedEndpoints = {}
    /\ failedAgo = <<>>
    /\ lapsed = {}

\* the steps of the calls
NextCall ==
    \/ CooldownStart
    \/ \E i \in DOMAIN ph : CooldownProbe(i)
    \/ LegacyJoin
    \/ CallAgain

NextCooldown ==
    \/ NextCall
    \/ CooldownElapses

\* time passes, and the caller goes on calling
SpecCooldown ==
    InitCooldown /\ [][NextCooldown]_vars /\ WF_vars(NextCall) /\ WF_vars(CooldownElapses)

----------------------------------------------------------------------------
(* The older revisions (src/unnamed/part_000, part_001): the remote url of  *)
(* the endpoint list, set by setEndpointsUrl, and getEndpoints with its     *)
(* cache                                                                    *)

\* getEndpoints is called at most this many times
MaxRegistryCalls == 2

\* part_000 line 29
NOZOMI_ENDPOINTS_URL == <<"https://", "raw.githubusercontent.com", "/endpoints.json">>

\* a url given to setEndpointsUrl, and one set in the environment
BucketUrl == <<"https://", "bucket.example", "/endpoints.json">>
EnvUrl == <<"https://", "env.example", "/endpoints.json">>

\* part_000 lines 198-202: the hardcoded list (its first two urls)
HardcodedUrls == <<NOZOMI_AUTO_ENDPOINT, Pit1Config.url.val>>

\* part_000: fetchEndpoints(url) is called with its default of 2 retries
FETCH_RETRIES == 2

\* what an attempt of fetchEndpoints can meet: a status that is not 2xx, an
\* exception (network error, abort by the timer, a body that is no JSON), or
\* a manifest whose endpoints have these url properties
RegistryFetchOutcomes ==
    { [kind |-> "notOk", urls |-> <<>>], [kind |-> "throws", urls |-> <<>>],
      [kind |-> "ok", urls |-> <<>>],
      [kind |-> "ok", urls |-> <<Str(<<"http://", "plain.example">>), Num(<<"7">>)>>],
      [kind |-> "ok", urls |-> <<Str(Tyo1Config.url.val), Undefined>>] }

\* part_000 lines 128-130: the url properties that are strings starting with
\* 'https://'
HttpsUrls(urls) ==
    LET kept == SelectSeq(urls, LAMBDA u : u.type = "string" /\ StartsWith(u.val, "https://"))
    IN [k \in 1..Len(kept) |-> kept[k].val]

\* part_000 lines 168-170 (part_001 lines 99-101): the custom url, or the one
\* of the environment, or the default one; null (<<>>) is falsy
UrlToFetch(r) ==
    IF r.remoteEndpointsUrl # <<>> THEN r.remoteEndpointsUrl
    ELSE IF r.env # <<>> THEN r.env
    ELSE NOZOMI_ENDPOINTS_URL

\* part_000 lines 74-78 (part_001 lines 37-41): setEndpointsUrl(url), url
\* being a string or null (<<>>)
SetEndpointsUrl(url) ==
    /\ registry' = [registry EXCEPT !.remoteEndpointsUrl = url, !.cachedEndpoints = <<>>,
                                     !.fresh = FALSE, !.disabled = (url = <<>>),
                                     !.cachedFrom = <<>>]
    /\ UNCHANGED <<thisCallVars, failedEndpoints, failedAgo, lapsed, peer, clientVars, sender>>

\* part_000 lines 160-173: getEndpoints is called; a fresh cache is returned
\* at once, otherwise fetchEndpoints(url) is called and issues its first
\* request.
RegistryGetEndpoints ==
    /\ registry.pc \in {"idle", "returned"}
    /\ registry.calls < MaxRegistryCalls
    /\ LET url == UrlToFetch(registry)
       IN registry' =
            IF registry.cachedEndpoints # <<>> /\ registry.fresh
            THEN [registry EXCEPT !.pc = "returned", !.got = registry.cachedEndpoints,
                                  !.gotFrom = registry.cachedFrom, !.gotUnder = url,
                                  !.calls = @ + 1]
            ELSE [registry EXCEPT !.pc = "fetching", !.url = url, !.attempt = 0,
                                  !.whenDisabled = registry.disabled,
                                  !.fetched = @ \cup {[url |-> url, whenDisabled |-> registry.disabled]},
                                  !.calls = @ + 1]
    /\ UNCHANGED <<thisCallVars, failedEndpoints, failedAgo, lapsed, peer, clientVars, sender>>

\* AfterFailedFetch going to the hardcoded list whatever the cache holds
AfterFailedFetchHardcoded(r) ==
    [r EXCEPT !.pc = "returned", !.got = HardcodedUrls, !.gotFrom = <<>>,
              !.gotUnder = UrlToFetch(r)]

\* part_000 lines 180-191: fetchEndpoints returned null; the cache, if it
\* holds a list, is returned whatever its age, otherwise the hardcoded list
AfterFailedFetch(r) ==
    IF r.cachedEndpoints # <<>>
    THEN [r EXCEPT !.pc = "returned", !.got = r.cachedEndpoints, !.gotFrom = r.cachedFrom,
                   !.gotUnder = UrlToFetch(r)]
    ELSE [r EXCEPT !.pc = "returned", !.got = HardcodedUrls, !.gotFrom = <<>>,
                   !.gotUnder = UrlToFetch(r)]

\* part_000 lines 115-140 and 173-188: the attempt in flight settles. Valid
\* urls are cached and returned, with an expiry of CACHE_TTL_MS (5 minutes)
\* after the time read at line 161, which the three attempts of at most 3 s
\* each and their backoffs cannot exceed; otherwise the next attempt follows
\* its backoff, and after the last attempt the stale cache or the hardcoded
\* list is returned.
RegistryFetchSettles ==
    /\ registry.pc = "fetching"
    /\ \E out \in RegistryFetchOutcomes :
        LET urls == IF out.kind = "ok" THEN HttpsUrls(out.urls) ELSE <<>>
            r == [registry EXCEPT !.fetchedUrls = urls]
        IN registry' =
             IF urls # <<>>
             THEN [r EXCEPT !.pc = "returned", !.cachedEndpoints = urls, !.fresh = TRUE,
                            !.cachedFrom = registry.url,
                            !.got = urls, !.gotFrom = registry.url,
                            !.gotUnder = UrlToFetch(registry)]
             ELSE IF registry.attempt < FETCH_RETRIES
             THEN [r EXCEPT !.pc = "backoff", !.attempt = @ + 1]
             ELSE AfterFailedFetch(r)
    /\ UNCHANGED <<thisCallVars, failedEndpoints, failedAgo, lapsed, peer, clientVars, sender>>

\* part_000 lines 108-118: the sleep before a retry ends and the request of
\* the attempt is issued
RegistryBackoff ==
    /\ registry.pc = "backoff"
    /\ registry' = [registry EXCEPT !.pc = "fetching",
                                     !.fetched = @ \cup {[url |-> registry.url,
                                                          whenDisabled |-> registry.whenDisabled]}]
    /\ UNCHANGED <<thisCallVars, failedEndpoints, failedAgo, lapsed, peer, clientVars, sender>>

\* part_000 line 164: time passes and the cache is no longer fresh
\* (now >= cacheExpiry)
CacheExpires ==
    /\ registry.fresh
    /\ registry' = [registry EXCEPT !.fresh = FALSE]
    /\ UNCHANGED <<thisCallVars, failedEndpoints, failedAgo, lapsed, peer, clientVars, sender>>

InitRegistry ==
    /\ InitCall
    /\ InitIdle
    /\ clientId = <<>>
    /\ failedEndpoints = {}
    /\ failedAgo = <<>>
    /\ lapsed = {}
    /\ registry \in { RegistryInit(env) : env \in {<<>>, EnvUrl} }

NextRegistry ==
    \/ \E url \in {<<>>, BucketUrl} : SetEndpointsUrl(url)
    \/ RegistryGetEndpoints
    \/ RegistryFetchSettles
    \/ RegistryBackoff
    \/ CacheExpires

SpecRegistry == InitRegistry /\ [][NextRegistry]_vars

----------------------------------------------------------------------------
(* The cooldown-tracking revision (src/unnamed/part_000): sendToFastest and *)
(* sendWithFallback. sendFn returns a promise; a send that has timed out is *)
(* still in flight until that promise settles.                              *)

\* an entry of options.endpoints that is an EndpointResult
ResultEntry(url) == [obj |-> TRUE, url |-> Str(url), region |-> Undefined]

\* options.endpoints: absent, or an array of urls and EndpointResults
SendEndpointsOptions ==
    { [kind |-> "undefined", items |-> <<>>],
      [kind |-> "array", items |-> <<>>],
      [kind |-> "array", items |-> <<Str(Pit1Config.url.val), ResultEntry(Tyo1Config.url.val)>>],
      [kind |-> "array", items |-> <<Str(Pit1Config.url.val), Str(Pit1Config.url.val)>>],
      [kind |-> "array", items |-> <<Str(Tyo1Config.url.val), NullEntry>>] }

SendOptionValues ==
    [ endpoints : SendEndpointsOptions, timeout : {Absent, Given(0)}, onError : BOOLEAN ]

\* what findFastestEndpoints() is given by getEndpoints() when a send starts
\* a discovery, and the options of that discovery (none)
SendDiscoveryUrls == { <<UrlConfig(NOZOMI_AUTO_ENDPOINT)>> }
SendDiscoveryOptions ==
    [ pingCount : {Absent}, warmupCount : {Absent}, topCount : {Absent}, timeout : {Absent},
      includeAutoRouted : {AbsentFlag}, endpoint : {AbsentString}, onResult : {FALSE} ]

\* part_000 lines 561-563 and 653-655: typeof e === 'string' ? e : e.url
\* throws on an entry that is null
EntryThrows(e) == "obj" \in DOMAIN e /\ ~e.obj
EntryUrl(e) == IF "obj" \in DOMAIN e THEN e.url.val ELSE e.val

\* part_000 lines 569-571 and 661-663: no url at all means the auto-routed one
EndpointUrls(urls) == IF Len(urls) = 0 THEN <<NOZOMI_AUTO_ENDPOINT>> ELSE urls

\* part_000 lines 573 and 665: options.timeout || 10000
SendTimeout(o) == OrDefault(o.timeout, 10000)

\* the locals of a send when it is called
NewSend(mode, o) ==
    [SenderIdle EXCEPT !.mode = mode, !.timeout = SendTimeout(o), !.onError = o.onError]

\* part_000 lines 622-624 and 704-706: the call returns null from its outer catch
ReturnsNull(s) == [s EXCEPT !.pc = "returned", !.settled = "fulfilled", !.result = 0]

SendFinished(st) ==
    \A i \in DOMAIN st : st[i] \in {"skipped", "succeeded", "failed", "timedOut"}

\* results.find(r => r !== null) || null, as an index into the endpoints (0
\* for null)
FirstSuccess(st) ==
    IF \E i \in DOMAIN st : st[i] = "succeeded"
    THEN CHOOSE i \in DOMAIN st : st[i] = "succeeded" /\ \A j \in 1..(i - 1) : st[j] # "succeeded"
    ELSE 0

\* part_000 lines 620-621: Promise.all(promises) is fulfilled once every
\* per-endpoint promise is, and the call returns the first success in list
\* order
ParallelJoin(s) ==
    IF SendFinished(s.st)
    THEN [s EXCEPT !.pc = "returned", !.settled = "fulfilled", !.result = FirstSuccess(s.st)]
    ELSE s

\* part_000 lines 577-595: the per-endpoint functions run up to their await;
\* an endpoint in cooldown gives null, sendFn is called on every other one.
\* expired: the marked urls whose cooldown is over, which are unmarked.
ParallelDispatch(s, urls, failed, expired) ==
    LET eps == EndpointUrls(urls)
        cooling(i) == eps[i] \in failed \ expired
    IN [ sender |-> ParallelJoin([s EXCEPT
                        !.pc = "sending", !.endpoints = eps,
                        !.st = [i \in 1..Len(eps) |-> IF cooling(i) THEN "skipped" ELSE "sending"],
                        !.inflight = [i \in 1..Len(eps) |-> ~cooling(i)],
                        !.late = [i \in 1..Len(eps) |-> "none"]]),
         failed |-> failed \ expired ]

\* part_000 lines 668-683: the loop of sendWithFallback goes on from entry k:
\* the entries before j are in cooldown and skipped, sendFn is called on entry
\* j, whose mark, if it has one, has expired; j past the end returns null
CanAdvance(s, k, failed, j, expires) ==
    /\ j \in k..(Len(s.endpoints) + 1)
    /\ \A m \in k..(j - 1) : s.endpoints[m] \in failed
    /\ j <= Len(s.endpoints) =>
          IF expires
          THEN s.endpoints[j] \in failed \ { s.endpoints[m] : m \in k..(j - 1) }
          ELSE s.endpoints[j] \notin failed
    /\ j > Len(s.endpoints) => ~expires

FallbackAdvance(s, k, failed, j) ==
    LET skipped == [s EXCEPT !.st = [i \in DOMAIN s.st |->
                                        IF i \in k..(j - 1) THEN "skipped" ELSE s.st[i]]]
    IN IF j > Len(s.endpoints)
       THEN [ sender |-> ReturnsNull(skipped), failed |-> failed ]
       ELSE [ sender |-> [skipped EXCEPT !.pc = "sending", !.st[j] = "sending",
                                         !.inflight[j] = TRUE],
              failed |-> failed \ {s.endpoints[j]} ]

\* the locals of sendWithFallback when its loop starts
FallbackReady(s, urls) ==
    LET eps == EndpointUrls(urls)
    IN [s EXCEPT !.pc = "sending", !.endpoints = eps,
                 !.st = [i \in 1..Len(eps) |-> "pending"],
                 !.inflight = [i \in 1..Len(eps) |-> FALSE],
                 !.late = [i \in 1..Len(eps) |-> "none"]]

\* part_000 lines 553-595: sendToFastest is called. Without options.endpoints
\* it awaits a discovery; otherwise it maps the entries to urls (a null entry
\* throws, and null is returned) and starts the sends.
SendToFastest ==
    /\ sender.mode = "none"
    /\ \E o \in SendOptionValues :
        LET s == NewSend("parallel", o)
            items == o.endpoints.items
        IN IF o.endpoints.kind = "undefined"
           THEN /\ sender' = [s EXCEPT !.pc = "discovering"]
                /\ LegacyStartCore(SendDiscoveryUrls, SendDiscoveryOptions)
                /\ UNCHANGED <<failedAgo, lapsed>>
           ELSE IF \E i \in 1..Len(items) : EntryThrows(items[i])
           THEN /\ sender' = ReturnsNull(s)
                /\ UNCHANGED <<thisCallVars, failedEndpoints, failedAgo, lapsed>>
           ELSE \E expired \in SUBSET failedEndpoints :
                  LET d == ParallelDispatch(s, [i \in 1..Len(items) |-> EntryUrl(items[i])],
                                            failedEndpoints, expired)
                  IN /\ sender' = d.sender
                     /\ failedEndpoints' = d.failed
                     /\ UNCHANGED <<thisCallVars, failedAgo, lapsed>>
    /\ UNCHANGED <<peer, clientVars, registry>>

\* part_000 lines 565-595: the discovery is fulfilled and the sends start on
\* the urls of its result
ParallelResume ==
    /\ sender.mode = "parallel"
    /\ sender.pc = "discovering"
    /\ pc = "done"
    /\ \E expired \in SUBSET failedEndpoints :
        LET d == ParallelDispatch(sender, [i \in 1..Len(returned) |-> returned[i].url.val],
                                  failedEndpoints, expired)
        IN /\ sender' = d.sender
           /\ failedEndpoints' = d.failed
    /\ UNCHANGED <<thisCallVars, failedAgo, lapsed, peer, clientVars, registry>>

\* what ends the wait for a send: its promise is fulfilled, or rejected, or
\* the timer of the race fires first
SendOutcomes == {"resolves", "rejects", "timeout"}

\* part_000 lines 592-616: the race of the send to endpoint i
\* against its timer ends. A success sets hasSucceeded and unmarks the url;
\* a failure or timeout marks it and calls onError unless some send has
\* succeeded already. The promise of sendFn is not settled by the timer.
ParallelSettles(i) ==
    /\ sender.mode = "parallel"
    /\ sender.pc = "sending"
    /\ sender.st[i] = "sending"
    /\ \E out \in SendOutcomes :
        LET url == sender.endpoints[i]
            counted == out # "resolves" /\ ~sender.hasSucceeded
        IN /\ sender' = ParallelJoin([sender EXCEPT
                            !.st[i] = CASE out = "resolves" -> "succeeded"
                                        [] out = "rejects" -> "failed"
                                        [] out = "timeout" -> "timedOut",
                            !.inflight[i] = (out = "timeout"),
                            !.hasSucceeded = @ \/ out = "resolves",
                            !.errors = IF counted /\ sender.onError THEN Append(@, url) ELSE @])
           /\ failedEndpoints' =
                IF out = "resolves" THEN failedEndpoints \ {url}
                ELSE IF counted THEN failedEndpoints \cup {url}
                ELSE failedEndpoints
    /\ UNCHANGED <<thisCallVars, failedAgo, lapsed, peer, clientVars, registry>>

\* the promise of a send that lost the race against its timer settles; nothing
\* awaits it any more
LateSettles(i) ==
    /\ sender.mode # "none"
    /\ i \in DOMAIN sender.st
    /\ sender.st[i] = "timedOut"
    /\ sender.inflight[i]
    /\ \E late \in {"delivered", "failed"} :
        sender' = [sender EXCEPT !.inflight[i] = FALSE, !.late[i] = late]
    /\ UNCHANGED <<thisCallVars, failedEndpoints, failedAgo, lapsed, peer, clientVars, registry>>

\* part_000 lines 645-683: sendWithFallback is called. Without
\* options.endpoints it awaits a discovery; otherwise it maps the entries to
\* urls (a null entry throws, and null is returned) and enters its loop.
SendWithFallback ==
    /\ sender.mode = "none"
    /\ \E o \in SendOptionValues :
        LET s == NewSend("fallback", o)
            items == o.endpoints.items
        IN IF o.endpoints.kind = "undefined"
           THEN /\ sender' = [s EXCEPT !.pc = "discovering"]
                /\ LegacyStartCore(SendDiscoveryUrls, SendDiscoveryOptions)
                /\ UNCHANGED <<failedAgo, lapsed>>
           ELSE IF \E i \in 1..Len(items) : EntryThrows(items[i])
           THEN /\ sender' = ReturnsNull(s)
                /\ UNCHANGED <<thisCallVars, failedEndpoints, failedAgo, lapsed>>
           ELSE LET r == FallbackReady(s, [i \in 1..Len(items) |-> EntryUrl(items[i])])
                IN \E j \in 1..(Len(r.endpoints) + 1), expires \in BOOLEAN :
                    /\ CanAdvance(r, 1, failedEndpoints, j, expires)
                    /\ sender' = FallbackAdvance(r, 1, failedEndpoints, j).sender
                    /\ failedEndpoints' = FallbackAdvance(r, 1, failedEndpoints, j).failed
                    /\ UNCHANGED <<thisCallVars, failedAgo, lapsed>>
    /\ UNCHANGED <<peer, clientVars, registry>>

\* part_000 lines 657-683: the discovery is fulfilled and the loop is entered
\* with the urls of its result
FallbackResume ==
    /\ sender.mode = "fallback"
    /\ sender.pc = "discovering"
    /\ pc = "done"
    /\ LET r == FallbackReady(sender, [i \in 1..Len(returned) |-> returned[i].url.val])
       IN \E j \in 1..(Len(r.endpoints) + 1), expires \in BOOLEAN :
            /\ CanAdvance(r, 1, failedEndpoints, j, expires)
            /\ sender' = FallbackAdvance(r, 1, failedEndpoints, j).sender
            /\ failedEndpoints' = FallbackAdvance(r, 1, failedEndpoints, j).failed
    /\ UNCHANGED <<thisCallVars, failedAgo, lapsed, peer, clientVars, registry>>

\* part_000 lines 678-703: the race of the send to endpoint i against its
\* timer ends. A success unmarks the url and is returned; a failure or
\* timeout marks the url, calls onError, and the loop goes on with the next
\* entry. The promise of sendFn is not settled by the timer.
FallbackSettles(i) ==
    /\ sender.mode = "fallback"
    /\ sender.pc = "sending"
    /\ sender.st[i] = "sending"
    /\ \E out \in SendOutcomes :
        LET url == sender.endpoints[i]
        IN IF out = "resolves"
           THEN /\ sender' = [sender EXCEPT !.st[i] = "succeeded", !.inflight[i] = FALSE,
                                            !.hasSucceeded = TRUE, !.pc = "returned",
                                            !.settled = "fulfilled", !.result = i]
                /\ failedEndpoints' = failedEndpoints \ {url}
           ELSE LET s == [sender EXCEPT
                            !.st[i] = IF out = "rejects" THEN "failed" ELSE "timedOut",
                            !.inflight[i] = (out = "timeout"),
                            !.errors = IF sender.onError THEN Append(@, url) ELSE @]
                    failed == failedEndpoints \cup {url}
                IN \E j \in (i + 1)..(Len(s.endpoints) + 1), expires \in BOOLEAN :
                    /\ CanAdvance(s, i + 1, failed, j, expires)
                    /\ j <= Len(s.endpoints) => s.endpoints[j] # url
                    /\ sender' = FallbackAdvance(s, i + 1, failed, j).sender
                    /\ failedEndpoints' = FallbackAdvance(s, i + 1, failed, j).failed
    /\ UNCHANGED <<thisCallVars, failedAgo, lapsed, peer, clientVars, registry>>

\* the discovery a send awaits
SendDiscovery ==
    \/ \E i \in DOMAIN ph : LegacyProbe(i)
    \/ LegacyJoin

InitSend ==
    /\ InitCall
    /\ InitBeyond
    /\ failedEndpoints \in SUBSET { Pit1Config.url.val, NOZOMI_AUTO_ENDPOINT }
    /\ failedAgo = <<>>
    /\ lapsed = {}

NextParallel ==
    \/ SendToFastest
    \/ SendDiscovery
    \/ ParallelResume
    \/ \E i \in DOMAIN sender.st : ParallelSettles(i)
    \/ \E i \in DOMAIN sender.st : LateSettles(i)

SpecParallel == InitSend /\ [][NextParallel]_vars

NextFallback ==
    \/ SendWithFallback
    \/ SendDiscovery
    \/ FallbackResume
    \/ \E i \in DOMAIN sender.st : FallbackSettles(i)
    \/ \E i \in DOMAIN sender.st : LateSettles(i)

SpecFallback == InitSend /\ [][NextFallback]_vars

----------------------------------------------------------------------------
(* Claims *)

Fulfilled == settled = "fulfilled"

\* the call went through Promise.all: every prober was fulfilled and the
\* results were ranked
Ranked == Fulfilled /\ DOMAIN ph # {} /\ \A i \in DOMAIN ph : ph[i] = "done"

SeqHas(s, x) == \E k \in 1..Len(s) : s[k] = x

\* every probe made so far, warmup or measurement, of every candidate failed
AllProbesFailed ==
    \A i \in DOMAIN times :
        /\ \A k \in 1..Len(times[i]) : times[i][k] = Infinity
        /\ \A k \in 1..Len(warmupTimes[i]) : warmupTimes[i][k] = Infinity

\* C1: findFastestEndpoints never rejects; once it has run to its end its
\* promise is fulfilled, and with a sequence of at least one entry, whatever
\* the options, the manifest fetch outcomes, the probe outcomes and the
\* observer do.
C1_NeverRejectsNonEmpty ==
    /\ settled # "rejected"
    /\ pc = "done" <=> Fulfilled
    /\ Fulfilled => Len(returned) >= 1

\* every manifest attempt failed, a probe failed, the observer threw, and the
\* call was still fulfilled
C1_Witness ==
    /\ Fulfilled
    /\ failedFetches = RETRIES + 1
    /\ observerThrew
    /\ \E i \in DOMAIN times : SeqHas(times[i], Infinity)

\* C2: if every probe of every candidate fails, the result is exactly one
\* entry: the auto-routed url, region 'auto', minTime Infinity; with
\* includeAutoRouted true or false and for any candidate list.
C2_AllFailYieldsAutoOnly ==
    (Fulfilled /\ AllProbesFailed) =>
        /\ Len(returned) = 1
        /\ returned[1].url = Str(NOZOMI_AUTO_ENDPOINT)
        /\ returned[1].region = Str(<<"auto">>)
        /\ returned[1].minTime = Infinity

\* two candidates, one of them the auto-routed endpoint, were probed to the
\* end with includeAutoRouted false and every probe failed
C2_Witness ==
    /\ Ranked
    /\ AllProbesFailed
    /\ Len(candidates) = 2
    /\ SeqHas(candidates, AutoConfig)
    /\ opts.includeAutoRouted = GivenFlag(FALSE)

\* C3: when includeAutoRouted is true or absent, the last entry returned has
\* region 'auto', whether or not the auto-routed endpoint was a candidate and
\* whether or not it responded.
C3_AutoIsLast ==
    (Fulfilled /\ Coalesce(opts.includeAutoRouted, TRUE)) =>
        returned[Len(returned)].region = Str(<<"auto">>)

\* includeAutoRouted absent, no candidate of region auto, a reachable regional
\* endpoint ranked first and the auto entry appended after it
C3_Witness ==
    /\ Ranked
    /\ ~opts.includeAutoRouted.set
    /\ \A i \in 1..Len(candidates) : candidates[i].region # Str(<<"auto">>)
    /\ Len(returned) = 2
    /\ returned[1].minTime < Infinity

\* candidate i is reachable and no reachable candidate of its region beats it:
\* none is faster, and none as fast stands earlier in the candidate list
BestOfRegion(i) ==
    /\ results[i].minTime < Infinity
    /\ \A j \in 1..Len(candidates) :
        (results[j].region = results[i].region /\ results[j].minTime < Infinity) =>
            \/ results[i].minTime < results[j].minTime
            \/ results[i].minTime = results[j].minTime /\ i <= j

\* C4: no two entries returned share a region, and each non-auto entry returned
\* is the result of the reachable candidate of its region with the lowest
\* minTime, the earlier in the candidate list on equal minTime.
C4_OnePerRegionFastest ==
    Fulfilled =>
        /\ \A a, b \in 1..Len(returned) : a # b => returned[a].region # returned[b].region
        /\ \A a \in 1..Len(returned) :
            returned[a].region # Str(<<"auto">>) =>
                \E i \in 1..Len(candidates) : BestOfRegion(i) /\ returned[a] = results[i]

\* two reachable candidates of one region with equal minTime and different
\* urls: the earlier one is returned
C4_Witness ==
    /\ Ranked
    /\ Len(candidates) = 2
    /\ candidates[1].region = candidates[2].region
    /\ candidates[1].url # candidates[2].url
    /\ candidates[1].region # Str(<<"auto">>)
    /\ results[1].minTime = results[2].minTime
    /\ results[1].minTime < Infinity
    /\ returned[1].url = candidates[1].url

\* the candidates whose sample has a finite minTime
Reachable == { i \in 1..Len(candidates) : results[i].minTime < Infinity }

RegionsOf(I) == { results[i].region : i \in I }

\* candidate j comes before candidate i in the order of latency (the candidate
\* list breaking ties)
Faster(j, i) ==
    \/ results[j].minTime < results[i].minTime
    \/ results[j].minTime = results[i].minTime /\ j < i

\* the fastest reachable candidate of each non-auto region
RegionalBests == { i \in Reachable : BestOfRegion(i) /\ results[i].region # Str(<<"auto">>) }

\* the n lowest-latency distinct non-auto regions, as their fastest candidates
TopRegionalBests(n) ==
    { i \in RegionalBests : Cardinality({ j \in RegionalBests : Faster(j, i) }) < n }

NonAutoReturned == { returned[a] : a \in { b \in 1..Len(returned) : returned[b].region # Str(<<"auto">>) } }

\* the entries of the result that the ordering covers: all of them, but for the
\* trailing auto entry when includeAutoRouted is true
OrderedPart ==
    IF Coalesce(opts.includeAutoRouted, TRUE) THEN Len(returned) - 1 ELSE Len(returned)

\* the clamp of topCount as the claims state it
ClaimedTopCount ==
    LET raw == IF opts.topCount.set THEN opts.topCount.v ELSE 2
    IN IF raw < 1 THEN 1 ELSE IF raw > 10 THEN 10 ELSE raw

\* C5: the entries returned are in ascending order of minTime, the trailing
\* auto entry being exempt when includeAutoRouted is true, and the non-auto
\* entries returned are exactly the topCount lowest-latency distinct regions
\* among the reachable candidates. Stated for the calls whose probers all ran
\* to their end.
C5_SortedTopRegions ==
    Ranked =>
        /\ \A a, b \in 1..OrderedPart : a < b => returned[a].minTime <= returned[b].minTime
        /\ NonAutoReturned = { results[i] : i \in TopRegionalBests(ClaimedTopCount) }

\* C5 with includeAutoRouted true or absent, where the code agrees with it
C5_SortedTopRegionsWithAuto ==
    Coalesce(opts.includeAutoRouted, TRUE) => C5_SortedTopRegions

WellFormedCandidates ==
    \A i \in 1..Len(candidates) : candidates[i].obj /\ candidates[i].url.type = "string"

TargetsOf(list) ==
    { PingUrl(list[i].url.val, EndpointPathOf(opts)) :
        i \in { j \in 1..Len(list) : list[j].obj /\ list[j].url.type = "string" } }

Probing == pc \in {"probing", "done"} /\ DOMAIN ph # {}

\* C7: when options.endpoints is supplied, no request goes to the manifest url
\* at any point of the call and the endpoints probed are exactly those of the
\* supplied list; an empty supplied list has the hardcoded list probed instead,
\* still without a manifest request.
C7_SuppliedSkipsManifest ==
    endpointsOpt.kind = "array" =>
        /\ manifestRequests = 0
        /\ pc \notin {"fetch", "backoff", "awaitBody"}
        /\ Probing =>
            LET list == IF endpointsOpt.items = <<>> THEN NOZOMI_ENDPOINTS ELSE endpointsOpt.items
            IN /\ candidates = list
               /\ requests \subseteq TargetsOf(list)
               /\ Ranked => requests = TargetsOf(list)

\* a supplied list of two endpoints was probed to the end
C7_Witness ==
    /\ Ranked
    /\ endpointsOpt.kind = "array"
    /\ Len(endpointsOpt.items) = 2
    /\ Cardinality(requests) = 2
    /\ manifestRequests = 0

\* a manifest entry the claims say is dropped: null or undefined, without a
\* url, with a url that is no string or is empty, with a url that does not
\* start with 'https://', or without a region
Dropped(e) ==
    \/ ~e.obj
    \/ e.url.type = "undefined"
    \/ e.url.type # "string"
    \/ e.url.val = <<>>
    \/ e.url.val[1] # "https://"
    \/ e.region.type = "undefined"

Kept(items) == SelectSeq(items, LAMBDA e : ~Dropped(e))

\* a fetch attempt that produces no valid descriptor: network error, timeout,
\* non-2xx status, body parse error, endpoints field absent, null, no array or
\* empty, or all entries invalid
ProducesNothing(out) ==
    \/ out.kind \in {"rejects", "throws", "timeout", "notOk", "jsonRejects"}
    \/ /\ out.kind = "ok"
       /\ \/ out.body.isNull
          \/ out.body.endpoints.kind \in {"undefined", "null", "other"}
          \/ Kept(out.body.endpoints.items) = <<>>

ManifestPath == endpointsOpt.kind = "undefined" /\ pc \in {"resolved", "probing", "done"}

\* C8: with no endpoints supplied, when every manifest fetch attempt fails to
\* produce a valid descriptor the candidates probed are exactly the hardcoded
\* list; when an attempt produces one, the candidates are exactly that
\* attempt's valid descriptors, no hardcoded entry among them.
C8_FallbackOrManifest ==
    ManifestPath =>
        /\ pc = "resolved" =>
             IF ProducesNothing(response)
             THEN remote = <<>> /\ failedFetches = RETRIES + 1
             ELSE remote = Kept(response.body.endpoints.items)
        /\ remote = <<>> <=> failedFetches = manifestRequests
        /\ candidates = IF remote = <<>> THEN NOZOMI_ENDPOINTS ELSE remote
        /\ Probing => requests \subseteq TargetsOf(IF remote = <<>> THEN NOZOMI_ENDPOINTS ELSE remote)

\* all three attempts failed and the hardcoded list was probed to the end
C8_Witness ==
    /\ Ranked
    /\ endpointsOpt.kind = "undefined"
    /\ failedFetches = 3
    /\ requests = TargetsOf(NOZOMI_ENDPOINTS)

\* C9: manifest resolution makes at most maxRetries + 1 = 3 fetch attempts,
\* sleeps attemptIndex x 500 ms before attempts 1 and 2 and not before attempt
\* 0, retries after every kind of failure, makes no attempt after the first
\* that yields a valid descriptor, and a fetch that fails twice and succeeds
\* on the third attempt yields the manifest's descriptors after 500 + 1000 ms
\* of backoff.
C9_RetrySchedule ==
    /\ manifestRequests <= 3
    /\ \A k \in 1..Len(sleeps) : sleeps[k] = k * 500
    /\ pc = "fetch" => Len(sleeps) = manifestRequests
    /\ pc # "fetch" => Len(sleeps) = Max2(manifestRequests - 1, 0)
    /\ (ProducesNothing(response) /\ manifestRequests < 3) => pc \in {"backoff", "fetch"}
    /\ failedFetches \in {manifestRequests, manifestRequests - 1}
    /\ failedFetches < manifestRequests => pc \notin {"fetch", "backoff"}
    /\ (pc = "resolved" /\ manifestRequests = 3 /\ ~ProducesNothing(response)) =>
          /\ failedFetches = 2
          /\ candidates = Kept(response.body.endpoints.items)
          /\ sleeps = <<500, 1000>>

\* two attempts failed, the third answered with a valid manifest
C9_Witness ==
    /\ pc = "resolved"
    /\ manifestRequests = 3
    /\ failedFetches = 2
    /\ response.kind = "ok"
    /\ Len(candidates) >= 1
    /\ sleeps = <<500, 1000>>

\* C10: the entries of a fetched manifest that are null or undefined, have no
\* url, a url that is no string or is empty, a url not starting with
\* 'https://', or no region are dropped one by one; the others are kept in
\* their order, the manifest is accepted as long as one is left, and only
\* valid entries are ever probed.
C10_InvalidEntriesDropped ==
    ManifestPath =>
        /\ (pc = "resolved" /\ response.kind = "ok" /\ ~response.body.isNull
              /\ response.body.endpoints.kind = "array"
              /\ Kept(response.body.endpoints.items) # <<>>) =>
                 /\ remote = Kept(response.body.endpoints.items)
                 /\ candidates = remote
        /\ remote # <<>> =>
              /\ \A i \in 1..Len(candidates) : ~Dropped(candidates[i])
              /\ Probing => requests \subseteq TargetsOf(Kept(candidates))

\* a manifest of an invalid entry followed by a valid one is accepted with the
\* valid one alone
C10_Witness ==
    /\ pc = "resolved"
    /\ response.kind = "ok"
    /\ Len(response.body.endpoints.items) = 2
    /\ Dropped(response.body.endpoints.items[1])
    /\ remote = <<response.body.endpoints.items[2]>>

\* a count or timeout as the documentation clamps it: the default when absent,
\* the nearest bound when out of range
ClaimedClamp(o, lo, hi, default) ==
    LET x == IF o.set THEN o.v ELSE default
    IN IF x < lo THEN lo ELSE IF x > hi THEN hi ELSE x

\* C11: for every integer the caller supplies, pingCount is clamped to 1..20,
\* warmupCount to 0..5, topCount to 1..10 and timeout to 1000..30000, never
\* rejected, and an absent value takes the default 5 / 2 / 2 / 5000; so
\* pingCount 100 issues exactly 20 measurement probes per endpoint and
\* pingCount 0 or negative exactly 1.
C11_OptionsClamped ==
    pc \in {"probing", "done"} =>
        /\ settled # "rejected"
        /\ pingCount = ClaimedClamp(opts.pingCount, 1, 20, 5)
        /\ warmupCount = ClaimedClamp(opts.warmupCount, 0, 5, 2)
        /\ topCount = ClaimedClamp(opts.topCount, 1, 10, 2)
        /\ timers \subseteq {ClaimedClamp(opts.timeout, 1000, 30000, 5000)}
        /\ \A i \in DOMAIN times :
            /\ Len(times[i]) <= ClaimedClamp(opts.pingCount, 1, 20, 5)
            /\ Len(warmupTimes[i]) <= ClaimedClamp(opts.warmupCount, 0, 5, 2)
            /\ Ranked =>
                /\ Len(times[i]) = ClaimedClamp(opts.pingCount, 1, 20, 5)
                /\ Len(warmupTimes[i]) = ClaimedClamp(opts.warmupCount, 0, 5, 2)
                /\ opts.pingCount = Given(100) => Len(times[i]) = 20
                /\ (opts.pingCount.set /\ opts.pingCount.v <= 0) => Len(times[i]) = 1
        /\ Ranked =>
            Cardinality({ a \in 1..Len(returned) : returned[a].region # Str(<<"auto">>) })
                <= ClaimedClamp(opts.topCount, 1, 10, 2)

\* pingCount 100, warmupCount 50 and timeout 0 were given, and the endpoint was
\* probed to the end with 5 warmups and 20 measurements under a 1000 ms timer
C11_Witness ==
    /\ Ranked
    /\ opts.pingCount = Given(100)
    /\ opts.warmupCount = Given(50)
    /\ opts.timeout = Given(0)
    /\ Len(times[1]) = 20
    /\ Len(warmupTimes[1]) = 5
    /\ timers = {1000}

\* C12: in the cooldown-tracking revision the configuration is clamped for
\* zero values as well: an explicit warmupCount of 0 results in zero warmup
\* probes per endpoint, and an explicit pingCount of 0 in exactly one
\* measurement probe per endpoint.
C12_LegacyZeroCounts ==
    \A i \in DOMAIN ph :
        ph[i] = "done" =>
            /\ opts.warmupCount = Given(0) => Len(warmupTimes[i]) = 0
            /\ opts.pingCount = Given(0) => Len(times[i]) = 1

\* C13: for each candidate the prober issues exactly warmupCount + pingCount
\* requests (clamped values), one at a time, a request starting only after
\* the previous one to that endpoint has settled, all warmups settling before
\* the first measurement request, whether the requests succeed, fail or time
\* out; the sample has warmupTimes of length warmupCount and times of length
\* pingCount.
C13_ProbesOneAtATime ==
    pc \in {"probing", "done"} =>
        \A i \in DOMAIN ph :
            ph[i] # "rejected" =>
                LET w == ClaimedClamp(opts.warmupCount, 0, 5, 2)
                    p == ClaimedClamp(opts.pingCount, 1, 20, 5)
                    answered == Len(warmupTimes[i]) + Len(times[i])
                IN /\ issued[i] - answered \in {0, 1}
                   /\ issued[i] <= w + p
                   /\ issued[i] > w => Len(warmupTimes[i]) = w
                   /\ Len(warmupTimes[i]) <= w
                   /\ ph[i] = "probing" <=> issued[i] - answered = 1
                   /\ ph[i] = "done" =>
                        /\ issued[i] = w + p
                        /\ Len(results[i].warmupTimes) = w
                        /\ Len(results[i].times) = p

\* a prober ran to its end with one warmup that failed and one measurement
\* that succeeded, two requests in all
C13_Witness ==
    /\ Ranked
    /\ \E i \in DOMAIN ph :
        /\ warmupTimes[i] = <<Infinity>>
        /\ times[i] = <<1>>
        /\ issued[i] = 2

\* m is the minimum of the non-empty sequence s
IsMinimum(m, s) == (\E k \in 1..Len(s) : s[k] = m) /\ (\A k \in 1..Len(s) : m <= s[k])

MinTimeMatches(r) == IF r.times # <<>> THEN IsMinimum(r.minTime, r.times) ELSE r.minTime = Infinity

\* C14: every EndpointResult passed to onResult or returned has minTime equal
\* to the minimum of its times when times is non-empty, and Infinity when
\* times is empty.
C14_MinTimeIsMinimum ==
    /\ \A a \in 1..Len(returned) : MinTimeMatches(returned[a])
    /\ \A i \in DOMAIN notified : notified[i] > 0 => MinTimeMatches(results[i])

\* a result with times 2 then 1 was passed to the observer and returned with
\* minTime 1, followed by the synthetic auto entry with no times
C14_Witness ==
    /\ Ranked
    /\ Len(returned) = 2
    /\ returned[1].times = <<2, 1>>
    /\ returned[1].minTime = 1
    /\ returned[2].times = <<>>
    /\ \E i \in DOMAIN notified : notified[i] = 1 /\ results[i] = returned[1]

\* C15: when onResult is supplied and all candidate descriptors are
\* well-formed, it is invoked exactly once per candidate, reachable or not,
\* after that candidate's last measurement probe has settled and before the
\* call resolves.
C15_ObserverOncePerCandidate ==
    (pc \in {"probing", "done"} /\ opts.onResult /\ WellFormedCandidates) =>
        /\ \A i \in DOMAIN notified :
            /\ notified[i] \in {0, 1}
            /\ notified[i] = 1 <=> ph[i] = "done"
            /\ notified[i] = 1 =>
                /\ Len(times[i]) = ClaimedClamp(opts.pingCount, 1, 20, 5)
                /\ issued[i] = Len(warmupTimes[i]) + Len(times[i])
        /\ Fulfilled => \A i \in DOMAIN notified : notified[i] = 1

\* two candidates, one reachable and one not, were probed to the end with an
\* observer, which was invoked once for each
C15_Witness ==
    /\ Ranked
    /\ opts.onResult
    /\ Len(candidates) = 2
    /\ results[1].minTime < Infinity
    /\ results[2].minTime = Infinity
    /\ notified = <<1, 1>>

\* C16: an observer that throws on any of its invocations changes nothing:
\* the sequence returned is the one the same candidates and probe outcomes
\* give with no observer (the ranking of the samples), every endpoint is still
\* probed to completion and the observer is still invoked for the others.
C16_ThrowingObserverHarmless ==
    (Fulfilled /\ WellFormedCandidates /\ DOMAIN ph # {}) =>
        /\ \A i \in DOMAIN ph :
            /\ ph[i] = "done"
            /\ Len(times[i]) = ClaimedClamp(opts.pingCount, 1, 20, 5)
            /\ opts.onResult => notified[i] = 1
        /\ returned = Rank(results, ClaimedClamp(opts.topCount, 1, 10, 2),
                           Coalesce(opts.includeAutoRouted, TRUE))

\* the observer threw, and the call returned the reachable endpoint first,
\* having probed and notified both candidates
C16_Witness ==
    /\ Ranked
    /\ observerThrew
    /\ Len(candidates) = 2
    /\ notified = <<1, 1>>
    /\ returned[1].minTime < Infinity

\* C17: when includeAutoRouted is false the auto-routed endpoint is excluded
\* from the result: no entry returned has region 'auto'.
C17_AutoExcluded ==
    (Fulfilled /\ opts.includeAutoRouted = GivenFlag(FALSE)) =>
        \A a \in 1..Len(returned) : returned[a].region # Str(<<"auto">>)

\* includeAutoRouted false, and the measured auto-routed candidate is returned
\* ahead of a reachable regional endpoint
C17_MeasuredAutoReturned ==
    /\ Ranked
    /\ opts.includeAutoRouted = GivenFlag(FALSE)
    /\ Len(returned) = 2
    /\ returned[1].region = Str(<<"auto">>)
    /\ returned[1].minTime < Infinity
    /\ returned[2].minTime < Infinity

\* the samples of a call's own candidates, from its own probe outcomes
OwnSamples(p) ==
    [i \in 1..Len(p.configs) |->
        [url |-> p.configs[i].url, region |-> p.configs[i].region,
         minTime |-> IF \E k \in 1..Len(p.times[i]) : p.times[i][k] < Infinity
                     THEN CHOOSE m \in Times : IsMinimum(m, p.times[i])
                     ELSE Infinity,
         times |-> p.times[i], warmupTimes |-> p.warmupTimes[i]]]

\* what a call run alone returns for its options and samples
AloneReturns(o, samples) ==
    Rank(samples, ClaimedClamp(o.topCount, 1, 10, 2), Coalesce(o.includeAutoRouted, TRUE))

\* C18: concurrent calls of findFastestEndpoints do not interfere: under any
\* interleaving of their manifest fetches, probes and callbacks, the result of
\* each is determined by its own options and the outcomes of its own requests
\* only, and is what the call returns when run alone with those outcomes.
C18_CallsIndependent ==
    /\ Ranked =>
          returned = AloneReturns(opts, OwnSamples([configs |-> candidates, times |-> times,
                                                    warmupTimes |-> warmupTimes]))
    /\ (Fulfilled /\ ~Ranked) => returned = <<SyntheticAuto>>
    /\ peer.settled = "fulfilled" => peer.returned = AloneReturns(peer.opts, OwnSamples(peer))

\* both calls resolved their candidates from the manifest, the peer after two
\* failed attempts, and both were fulfilled, with different results
C18_Witness ==
    /\ Ranked
    /\ peer.settled = "fulfilled"
    /\ endpointsOpt.kind = "undefined"
    /\ peer.attempt = 2
    /\ candidates # peer.configs
    /\ returned[1].minTime < Infinity
    /\ peer.returned[1].minTime < Infinity
    /\ returned # peer.returned

\* C19: NozomiClient.getEndpoints fetches once and reuses after: over any
\* sequence or overlap of getEndpoints() calls on one client, with no refresh()
\* or clearCache() in between, at most one discovery is performed and every
\* call returns the same cached result.
C19_FetchOnceReuse ==
    /\ discoveries <= 1
    /\ \A c, d \in Callers :
        (callers[c].pc = "returned" /\ callers[d].pc = "returned") =>
            callers[c].got = callers[d].got

\* two overlapping calls on a fresh client each ran a discovery, and returned
\* different results
C19_TwoDiscoveries ==
    /\ discoveries = 2
    /\ callers["A"].pc = "returned"
    /\ callers["B"].pc = "returned"
    /\ callers["A"].got # callers["B"].got

\* u is url without its trailing slashes
IsStripped(u, url) ==
    /\ Len(u) <= Len(url)
    /\ SubSeq(url, 1, Len(u)) = u
    /\ u = <<>> \/ u[Len(u)] # "/"
    /\ \A k \in (Len(u) + 1)..Len(url) : url[k] = "/"

\* C20: NozomiClient.getFastestEndpointUrl never rejects and returns
\* '<u>/?c=<clientId>', u being the url, trailing slashes stripped, of the first
\* entry of a discovery run with topCount forced to 1 whatever the client
\* defaults and the per-call options; when no non-auto endpoint is reachable,
\* u is the auto-routed url.
C20_FastestUrl ==
    /\ urlResult.state # "rejected"
    /\ pc \in {"probing", "done"} => opts.topCount = Given(1)
    /\ Ranked => Len(NonAuto(returned)) <= 1
    /\ urlResult.state = "fulfilled" =>
        \E u \in { SubSeq(returned[1].url.val, 1, n) : n \in 0..Len(returned[1].url.val) } :
            /\ IsStripped(u, returned[1].url.val)
            /\ urlResult.url = u \o <<"/?c=">> \o clientId
            /\ (\A i \in Reachable : results[i].region = Str(<<"auto">>)) =>
                  u = NOZOMI_AUTO_ENDPOINT

\* the fastest endpoint's url ends with two slashes, and the url returned is
\* that url without them, followed by /?c= and the key
C20_Witness ==
    /\ Ranked
    /\ returned[1].url.val = CustomUrl \o <<"/", "/">>
    /\ urlResult = [state |-> "fulfilled", url |-> CustomUrl \o <<"/?c=", "key">>]

\* C23: calling setEndpointsUrl(null) disables remote fetching: a getEndpoints()
\* call made after it (with no other url set since) issues no remote manifest
\* request.
C23_NullDisablesFetching == \A f \in registry.fetched : ~f.whenDisabled

\* after setEndpointsUrl(null), with no url in the environment, getEndpoints
\* requested the default manifest url
C23_DefaultUrlFetched ==
    /\ registry.env = <<>>
    /\ [url |-> NOZOMI_ENDPOINTS_URL, whenDisabled |-> TRUE] \in registry.fetched

\* C21: sendToFastest returns as soon as any endpoint's send succeeds: its
\* promise is resolved without waiting for the sends to the remaining endpoints
\* to complete or time out.
C21_ReturnsOnFirstSuccess ==
    (sender.mode = "parallel" /\ \E i \in DOMAIN sender.st : sender.st[i] = "succeeded") =>
        sender.settled = "fulfilled"

\* the send to the first endpoint has succeeded, the send to the second is
\* still awaited, and the promise of sendToFastest is pending
C21_WaitsForTheRest ==
    /\ sender.mode = "parallel"
    /\ Len(sender.st) = 2
    /\ sender.st[1] = "succeeded"
    /\ sender.st[2] = "sending"
    /\ sender.settled = "pending"

\* the parts of C22 on the order of the sends and on what is returned
FallbackInOrder ==
    /\ sender.settled # "rejected"
    /\ \A j \in DOMAIN sender.st :
        sender.st[j] \notin {"pending", "skipped"} =>
            \A m \in 1..(j - 1) : sender.st[m] \in {"skipped", "failed", "timedOut"}
    /\ \A i \in DOMAIN sender.st :
        sender.st[i] = "succeeded" =>
            \A j \in (i + 1)..Len(sender.st) : sender.st[j] = "pending"
    /\ sender.settled = "fulfilled" =>
        /\ sender.result # 0 => sender.st[sender.result] = "succeeded"
        /\ sender.result = 0 <=> \A i \in DOMAIN sender.st : sender.st[i] # "succeeded"

\* the number of sends whose promise has not settled
SendsInFlight == Cardinality({ i \in DOMAIN sender.inflight : sender.inflight[i] })

\* C22: sendWithFallback never rejects and tries the endpoints strictly in list
\* order: sendFn is called on an endpoint only after the send to every earlier
\* endpoint that was not skipped has failed or timed out, no two sends overlap,
\* no endpoint after the first successful one is contacted, the first success
\* is what is returned, and null is returned iff no send succeeded.
C22_FallbackSequential ==
    sender.mode = "fallback" =>
        /\ FallbackInOrder
        /\ SendsInFlight <= 1
        /\ (sender.settled = "fulfilled" /\ sender.result = 0) =>
              \A i \in DOMAIN sender.late : sender.late[i] # "delivered"

\* the send to the first endpoint timed out and is still in flight while the
\* send to the second endpoint is in flight too
C22_SendsOverlap ==
    /\ sender.mode = "fallback"
    /\ Len(sender.st) = 2
    /\ sender.st[1] = "timedOut"
    /\ sender.inflight[1]
    /\ sender.st[2] = "sending"
    /\ sender.inflight[2]

\* C24: findFastestEndpoints has wait-all semantics for any candidate list,
\* lists with a malformed descriptor included: when its promise is resolved the
\* prober of every candidate has finished, so that no probe request is in
\* flight and no onResult invocation is still to come.
C24_WaitAll ==
    settled # "pending" => \A i \in DOMAIN ph : ph[i] # "probing"

\* the promise is fulfilled through the catch-all while the prober of a
\* well-formed candidate still has a request in flight and has not called
\* onResult
C24_ResolvedWhileProbing ==
    /\ Fulfilled
    /\ opts.onResult
    /\ \E i \in DOMAIN ph : ph[i] = "rejected"
    /\ \E i \in DOMAIN ph : ph[i] = "probing" /\ notified[i] = 0

\* C25: each manifest fetch attempt is covered by its own timeout until the
\* manifest has been read and parsed: while the resolver waits for the body of
\* a response whose status has arrived, the timer of the attempt is armed, so
\* that a body that never completes is abandoned and resolution terminates.
C25_BodyUnderTimeout == pc = "awaitBody" => ManifestTimerArmed

\* the status of the manifest response has arrived, the body never completes,
\* no timer is armed and the call is pending
C25_BodyAwaitedForever ==
    /\ pc = "awaitBody"
    /\ response.kind = "bodyHangs"
    /\ ~ManifestTimerArmed
    /\ settled = "pending"

\* n times Infinity
AllInfinity(n) == [k \in 1..n |-> Infinity]

\* the results of the probers, had every probe of the candidate that never
\* answers failed at once
ResultsIfFailedAtOnce ==
    [i \in 1..Len(candidates) |->
        IF i = Hung
        THEN PingResult(candidates[i], AllInfinity(warmupCount), AllInfinity(pingCount))
        ELSE results[i]]

HungHarmless ==
    (pc \in {"probing", "done"} /\ Hung \in DOMAIN ph) =>
        /\ \A k \in 1..Len(times[Hung]) : times[Hung][k] = Infinity
        /\ \A k \in 1..Len(warmupTimes[Hung]) : warmupTimes[Hung][k] = Infinity
        /\ \A i \in DOMAIN ph :
            /\ issued[i] = Len(warmupTimes[i]) + Len(times[i]) + (IF ph[i] = "probing" THEN 1 ELSE 0)
            /\ ph[i] = "done" =>
                  Len(warmupTimes[i]) = warmupCount /\ Len(times[i]) = pingCount
        /\ settled = "fulfilled" =>
              returned = Rank(ResultsIfFailedAtOnce, topCount, includeAutoRouted)

\* C26: if the requests to some endpoint never respond, each of its probes is
\* aborted by its own timer and recorded as +infinity for that sample only; no
\* probe of another endpoint and no later probe of the same endpoint is
\* cancelled or skipped because of it; findFastestEndpoints eventually resolves
\* (given that timers fire), and the other endpoints are ranked exactly as if
\* the endpoint had failed immediately.
C26_HungEndpointHarmless == []HungHarmless /\ <>(settled = "fulfilled")

\* the first candidate never answered: its three probes timed out one after
\* the other, and the second candidate, reachable, is returned first
C26_Witness ==
    /\ Ranked
    /\ Len(candidates) = 2
    /\ warmupTimes[Hung] = <<Infinity>>
    /\ times[Hung] = <<Infinity, Infinity>>
    /\ results[2].minTime < Infinity
    /\ returned[1].url = candidates[2].url

\* the candidates of region 'auto'
AutoProbed == { i \in 1..Len(candidates) : results[i].region = AutoRegion }

\* C27: when includeAutoRouted is true, the trailing auto entry is the measured
\* result of the auto-routed endpoint, with its recorded times and warmupTimes,
\* whenever the auto-routed endpoint was among the probed candidates, and the
\* synthetic entry (minTime +infinity, no times) only when it was not.
C27_TrailingAutoMeasured ==
    (Ranked /\ includeAutoRouted) =>
        LET last == returned[Len(returned)]
        IN IF AutoProbed # {}
           THEN \E i \in AutoProbed : last = results[i]
           ELSE last = SyntheticAuto

\* the auto-routed endpoint was probed and every measurement failed; the
\* trailing entry is the synthetic one, without the recorded times
C27_UnreachableAutoSynthetic ==
    /\ Ranked
    /\ includeAutoRouted
    /\ \E i \in AutoProbed : results[i].times # <<>> /\ results[i].minTime = Infinity
    /\ returned[Len(returned)] = SyntheticAuto

\* a manifest descriptor as the claim accepts it
ClaimedAccepted(e) ==
    /\ e.obj
    /\ e.url.type = "string"
    /\ e.url.val # <<>>
    /\ e.url.val[1] = "https://"
    /\ e.region.type = "string"
    /\ e.region.val # <<>>

ArrayManifest ==
    response.kind = "ok" /\ ~response.body.isNull /\ response.body.endpoints.kind = "array"

\* C28: a manifest descriptor is accepted if and only if its url is a non-empty
\* string starting with 'https://' and its region is a non-empty string; a
\* descriptor whose region is present but is no string (a number, an object) is
\* dropped.
C28_AcceptedIff ==
    /\ (pc = "resolved" /\ ArrayManifest /\ remote # <<>>) =>
          remote = SelectSeq(response.body.endpoints.items, ClaimedAccepted)
    /\ (pc = "backoff" /\ ArrayManifest) =>
          SelectSeq(response.body.endpoints.items, ClaimedAccepted) = <<>>

\* a manifest whose only descriptor has the number 5 for region is accepted
C28_NumberRegionAccepted ==
    /\ pc = "resolved"
    /\ ArrayManifest
    /\ Len(response.body.endpoints.items) = 1
    /\ remote = response.body.endpoints.items
    /\ remote[1].region = Num(<<"5">>)

\* the result of the prober of each candidate, in the order of the candidates
ResultsInListOrder ==
    [i \in 1..Len(candidates) |-> PingResult(candidates[i], warmupTimes[i], times[i])]

\* C29: the ranking is deterministic: the sequence returned is a function of
\* the candidate list order, the samples of each endpoint and the options only,
\* the same for every order in which the concurrent probers complete, and
\* candidates with equal minTime appear in the order of the candidate list.
C29_RankingDeterministic ==
    Ranked =>
        /\ returned = Rank(ResultsInListOrder, topCount, includeAutoRouted)
        /\ \A a, b \in 1..OrderedPart :
            a < b =>
                \E i, j \in 1..Len(candidates) :
                    /\ ResultsInListOrder[i] = returned[a]
                    /\ ResultsInListOrder[j] = returned[b]
                    /\ \/ MinOf(times[i]) < MinOf(times[j])
                       \/ MinOf(times[i]) = MinOf(times[j]) /\ i < j

\* the second candidate completed first, with the same minTime as the first
\* candidate, and is returned after it
C29_Witness ==
    /\ Ranked
    /\ completed = <<2, 1>>
    /\ MinOf(times[1]) = MinOf(times[2])
    /\ MinOf(times[1]) < Infinity
    /\ Len(returned) >= 2
    /\ returned[1] = ResultsInListOrder[1]
    /\ returned[2] = ResultsInListOrder[2]

\* what a probe can record: a time, or Infinity
SampleValues == Times \cup {Infinity}

\* the warmup times another run can record for the same candidates
OtherWarmups == [1..Len(candidates) -> [1..warmupCount -> SampleValues]]

\* the urls and minTime values of a result, in order
UrlsAndMinTimes(s) == [k \in 1..Len(s) |-> [url |-> s[k].url, minTime |-> s[k].minTime]]

\* what a run with the same candidates, options and measurement outcomes, and
\* the warmup times w, returns
ReturnedWith(w) ==
    Rank([i \in 1..Len(candidates) |-> PingResult(candidates[i], w[i], times[i])],
         topCount, includeAutoRouted)

\* C30: warmup outcomes never influence the ranking: two runs with the same
\* candidates, options and measurement outcomes and any different warmup
\* outcomes, all warmups failing included, return the same urls in the same
\* order with the same minTime values.
C30_WarmupsDoNotRank ==
    Ranked =>
        \A w \in OtherWarmups : UrlsAndMinTimes(ReturnedWith(w)) = UrlsAndMinTimes(returned)

\* the warmups of the first candidate were faster than its measurement, those
\* of the second all failed, and the second, whose measurement was faster, is
\* returned first
C30_Witness ==
    /\ Ranked
    /\ Len(candidates) = 2
    /\ warmupTimes[1] = <<1, 1>>
    /\ times[1] = <<2>>
    /\ warmupTimes[2] = <<Infinity, Infinity>>
    /\ times[2] = <<1>>
    /\ returned[1].url = candidates[2].url
    /\ returned[1].minTime = 1

\* C31: no unreachable endpoint is returned as a ranked entry: every entry of
\* the result other than the auto-routed one has a finite minTime, and an entry
\* whose minTime is Infinity is the fixed auto-routed url with region 'auto'
\* and empty times.
C31_UnreachableNeverRanked ==
    Fulfilled =>
        \A k \in 1..Len(returned) :
            /\ returned[k].region # AutoRegion => returned[k].minTime < Infinity
            /\ returned[k].minTime = Infinity =>
                  /\ returned[k].url = Str(NOZOMI_AUTO_ENDPOINT)
                  /\ returned[k].region = AutoRegion
                  /\ returned[k].times = <<>>

\* of two regional candidates one was unreachable and the other answered: the
\* result is the one that answered, then the synthetic auto entry
C31_Witness ==
    /\ Ranked
    /\ Len(candidates) = 2
    /\ results[1].region # AutoRegion
    /\ results[1].minTime = Infinity
    /\ results[2].region # AutoRegion
    /\ results[2].minTime < Infinity
    /\ returned = <<results[2], SyntheticAuto>>

\* the sends of sendToFastest to url that failed or timed out
FailedSends(url) ==
    { i \in DOMAIN sender.st :
        sender.endpoints[i] = url /\ sender.st[i] \in {"failed", "timedOut"} }

\* the calls of onError made for url
ErrorReports(url) == { k \in 1..Len(sender.errors) : sender.errors[k] = url }

\* C32: in sendToFastest every endpoint whose send fails or times out is marked
\* failed for cooldown and reported to onError exactly once, in whatever order
\* the parallel sends settle, a failure that settles after another endpoint
\* has succeeded included.
C32_EveryFailureCounted ==
    sender.mode = "parallel" =>
        \A i \in DOMAIN sender.st :
            LET url == sender.endpoints[i]
            IN sender.st[i] \in {"failed", "timedOut"} =>
                /\ sender.onError =>
                      Cardinality(ErrorReports(url)) = Cardinality(FailedSends(url))
                /\ (\A j \in DOMAIN sender.st :
                        sender.endpoints[j] = url => sender.st[j] # "succeeded")
                      => url \in failedEndpoints

\* the send to the first endpoint succeeded, the send to the second failed
\* after it: the second is not in cooldown and onError, which was given, was
\* never called
C32_LateFailureDropped ==
    /\ sender.mode = "parallel"
    /\ Len(sender.endpoints) = 2
    /\ sender.st[1] = "succeeded"
    /\ sender.st[2] = "failed"
    /\ sender.endpoints[2] # sender.endpoints[1]
    /\ sender.onError
    /\ sender.errors = <<>>
    /\ sender.endpoints[2] \notin failedEndpoints

\* C33: changing the manifest url clears the cache for good: after
\* setEndpointsUrl(u) has returned, getEndpoints() never returns, and the cache
\* never holds, a list fetched from a url configured before, a getEndpoints()
\* call in flight when the url was changed included.
C33_UrlChangeClearsForGood ==
    /\ registry.cachedEndpoints # <<>> => registry.cachedFrom = UrlToFetch(registry)
    /\ (registry.pc = "returned" /\ registry.gotFrom # <<>>) =>
          registry.gotFrom = registry.gotUnder

\* a getEndpoints() call was fetching the default url when setEndpointsUrl set
\* the bucket url; the call then returned the list of the default url and left
\* it in the cache, where it is fresh
C33_OldListCached ==
    /\ registry.remoteEndpointsUrl = BucketUrl
    /\ registry.pc = "returned"
    /\ registry.gotFrom = NOZOMI_ENDPOINTS_URL
    /\ registry.gotUnder = BucketUrl
    /\ registry.cachedEndpoints = registry.got
    /\ registry.cachedFrom = NOZOMI_ENDPOINTS_URL
    /\ registry.fresh

\* what a step that calls getEndpoints() does, from registry r to registry r2
CallStepByPriority(r, r2) ==
    IF r.cachedEndpoints # <<>> /\ r.fresh
    THEN /\ r2.pc = "returned"
         /\ r2.got = r.cachedEndpoints
         /\ r2.fetched = r.fetched
         /\ r2.cachedEndpoints = r.cachedEndpoints /\ r2.fresh
    ELSE /\ r2.pc = "fetching"
         /\ r2.attempt = 0
         /\ \E f \in r2.fetched : f.url = r2.url

\* what a step that ends an attempt of the fetch does
SettleStepByPriority(r, r2) ==
    IF r2.fetchedUrls # <<>>
    THEN /\ r2.pc = "returned"
         /\ r2.got = r2.fetchedUrls
         /\ r2.cachedEndpoints = r2.fetchedUrls /\ r2.fresh
    ELSE IF r.attempt < FETCH_RETRIES
    THEN r2.pc = "backoff" /\ r2.attempt = r.attempt + 1
    ELSE /\ r2.pc = "returned"
         /\ r2.cachedEndpoints = r.cachedEndpoints /\ r2.fresh = r.fresh
         /\ r2.got = IF r.cachedEndpoints # <<>> THEN r.cachedEndpoints ELSE HardcodedUrls

\* C38: getEndpoints never throws and follows its priority: a non-empty cache
\* that has not expired is returned without any fetch; otherwise a remote fetch
\* with retry is attempted, and its success replaces the cache and resets the
\* expiry; when the fetch fails a stale non-empty cache is returned; the
\* hardcoded list is returned only when the fetch failed and no cache exists.
C38_CachePriority ==
    [][ /\ registry'.calls = registry.calls + 1 => CallStepByPriority(registry, registry')
        /\ (registry.pc = "fetching" /\ registry'.pc # "fetching") =>
              SettleStepByPriority(registry, registry')
        /\ registry'.pc = "returned" => registry'.got # <<>> ]_vars

\* the second call found the cache expired, its three attempts failed, and it
\* returned the list the first call had cached
C38_StaleCacheReturned ==
    /\ registry.calls = 2
    /\ registry.pc = "returned"
    /\ registry.attempt = FETCH_RETRIES
    /\ registry.fetchedUrls = <<>>
    /\ registry.cachedEndpoints # <<>>
    /\ ~registry.fresh
    /\ registry.got = registry.cachedEndpoints

\* invocation c resumes after its discovery in this step
Resumes(c) == callers[c].pc = "discovering" /\ callers'[c].pc = "returned"

\* C34: after clearCache() has returned the cache stays empty until a
\* getEndpoints() or refresh() call that started after it completes: a
\* discovery that was in flight when clearCache() ran does not repopulate the
\* cache, so the next getEndpoints() performs a fresh discovery.
C34_ClearedStaysEmpty ==
    [][ (cachedEndpoints' # cachedEndpoints /\ cachedEndpoints' # <<>>) =>
            \E c \in Callers : Resumes(c) /\ ~callers[c].cleared ]_vars

\* clearCache() ran while the getEndpoints() call A awaited its discovery; A
\* then filled the cache, and the getEndpoints() call B, made after that,
\* returned A's result without a discovery of its own
C34_InFlightRepopulates ==
    /\ callers["A"].cleared
    /\ callers["A"].pc = "returned"
    /\ cachedEndpoints = callers["A"].got
    /\ cachedEndpoints # <<>>
    /\ callers["B"].pc = "returned"
    /\ callers["B"].got = cachedEndpoints
    /\ discoveries = 1

\* the url of candidate i of the call that has started
UrlOf(i) == candidates[i].url.val

\* part_000 lines 298-330: what pingUrl returns for candidate i, the property
\* skipped being set by the return of line 305 alone
PingUrlResult(i) ==
    [ url |-> UrlOf(i), minTime |-> MinOf(times[i]), times |-> times[i],
      warmupTimes |-> warmupTimes[i], skipped |-> (ph[i] = "skipped") ]

\* this step is the start of a call, with the cooldown checks of its urls
ChecksCooldown == pc = "start" /\ pc' = "probing"

\* the failure recorded for url is at most FAILURE_COOLDOWN_MS old
FailedRecently(url) ==
    url \in DOMAIN failedAgo /\ failedAgo[url] * TickMs <= FAILURE_COOLDOWN_MS

\* C35: while the recorded failure of an endpoint is at most 60 s old, pingUrl
\* issues no request to it, returns {minTime: Infinity, times: [],
\* warmupTimes: [], skipped: true} and leaves the recorded failure time as it
\* is; findFastestEndpoints still returns a non-empty result when every
\* candidate is skipped.
C35_CooldownSkips ==
    /\ [][ ChecksCooldown =>
              \A i \in 1..Len(configs'.items) :
                  LET url == configs'.items[i].url.val
                  IN FailedRecently(url) =>
                        /\ ph'[i] = "skipped"
                        /\ issued'[i] = 0
                        /\ PingUrl(url, EndpointPathOf(opts')) \notin requests'
                        /\ url \in DOMAIN failedAgo'
                        /\ failedAgo'[url] = failedAgo[url] ]_vars
    /\ [](\A i \in DOMAIN ph :
            ph[i] = "skipped" =>
                /\ issued[i] = 0
                /\ PingUrlResult(i) =
                      [ url |-> UrlOf(i), minTime |-> Infinity, times |-> <<>>,
                        warmupTimes |-> <<>>, skipped |-> TRUE ])
    /\ [](Fulfilled => Len(returned) >= 1)

\* both urls of a call were skipped, the failure of the first being exactly
\* one cooldown old; no request was made and the call returned the auto-routed
\* url alone
C35_AllSkipped ==
    /\ pc = "done"
    /\ Len(candidates) = 2
    /\ \A i \in DOMAIN ph : ph[i] = "skipped"
    /\ failedAgo[UrlOf(1)] * TickMs = FAILURE_COOLDOWN_MS
    /\ requests = {}
    /\ returned = <<SyntheticAuto>>

\* C36: after pingUrl has probed an endpoint that is not in cooldown, the
\* endpoint is recorded as failed, with the current time, iff every measurement
\* probe returned Infinity, whatever the warmups returned; otherwise any
\* failure record of it is removed.
C36_MarkedIffAllFailed ==
    [][ \A i \in DOMAIN ph :
          (ph[i] = "probing" /\ ph'[i] = "done") =>
              IF \A k \in 1..Len(times'[i]) : times'[i][k] = Infinity
              THEN /\ UrlOf(i) \in failedEndpoints'
                   /\ UrlOf(i) \in DOMAIN failedAgo'
                   /\ failedAgo'[UrlOf(i)] = 0
              ELSE /\ UrlOf(i) \notin failedEndpoints'
                   /\ UrlOf(i) \notin DOMAIN failedAgo' ]_vars

\* the warmup of the first url succeeded and its two measurements failed: the
\* url has just been recorded as failed
C36_MarkedDespiteWarmup ==
    /\ pc = "probing"
    /\ ph[1] = "done"
    /\ warmupTimes[1] = <<1>>
    /\ times[1] = <<Infinity, Infinity>>
    /\ UrlOf(1) \in DOMAIN failedAgo
    /\ failedAgo[UrlOf(1)] = 0

\* the url every call lists
ListedUrl == Tyo1Config.url.val

\* this step finishes a probe of url whose measurements all failed
RecordsFailure(url) ==
    \E i \in DOMAIN ph :
        /\ ph[i] = "probing" /\ ph'[i] = "done"
        /\ UrlOf(i) = url
        /\ \A k \in 1..Len(times'[i]) : times'[i][k] = Infinity

\* C37: the cooldown is time-boxed and expires lazily: once more than 60 s
\* have passed since the last recorded failure of an endpoint, the next
\* cooldown check of it returns false and removes its entry, and the endpoint
\* is probed again; a skipped probe never extends the window, so that no
\* endpoint stays excluded forever without a new recorded failure.
C37_CooldownExpires ==
    /\ [][ ChecksCooldown =>
              \A i \in 1..Len(configs'.items) :
                  LET url == configs'.items[i].url.val
                  IN (url \in DOMAIN failedAgo /\ ~FailedRecently(url)) =>
                        /\ url \notin DOMAIN failedAgo'
                        /\ url \notin failedEndpoints'
                        /\ ph'[i] = "probing"
                        /\ PingUrl(url, EndpointPathOf(opts')) \in requests' ]_vars
    /\ [][ \A url \in DOMAIN failedAgo \cap DOMAIN failedAgo' :
              failedAgo'[url] < failedAgo[url] => RecordsFailure(url) ]_vars
    /\ (ListedUrl \in DOMAIN failedAgo) ~>
          (\E i \in DOMAIN ph : UrlOf(i) = ListedUrl /\ ph[i] = "probing")

\* the entry of a url has been deleted by the check of a call, which probes
\* the url again: its first request is in flight, while the other url of the
\* call, whose failure is younger, is skipped
C37_ProbedAgain ==
    /\ pc = "probing"
    /\ Len(candidates) = 2
    /\ UrlOf(1) \in lapsed
    /\ UrlOf(1) \notin DOMAIN failedAgo
    /\ ph[1] = "probing"
    /\ issued[1] = 1
    /\ warmupTimes[1] = <<>>
    /\ UrlOf(2) \notin lapsed
    /\ ph[2] = "skipped"

\* the probe path as the claim has it: options.endpoint, '/ping' when absent
ClaimedPath == IF opts.endpoint.set THEN opts.endpoint.v ELSE <<"/ping">>

\* target is base followed by the probe path, base being url without its
\* trailing slashes
IsTargetOf(target, url) ==
    \E n \in 0..Len(url) :
        /\ IsStripped(SubSeq(url, 1, n), url)
        /\ target = SubSeq(url, 1, n) \o ClaimedPath

\* C39: the probe target is the endpoint url with all its trailing '/' removed,
\* followed by the probe path: whatever the number of trailing slashes the
\* request goes to '<base><path>' with no doubled slash at the join; the path
\* defaults to '/ping', and an empty path probes exactly the bare base url.
C39_ProbeTarget ==
    pc \in {"probing", "done"} =>
        /\ \A i \in 1..Len(candidates) :
              \E target \in requests : IsTargetOf(target, candidates[i].url.val)
        /\ \A target \in requests :
              \E i \in 1..Len(candidates) : IsTargetOf(target, candidates[i].url.val)
        /\ opts.endpoint = GivenString(<<>>) =>
              \A target \in requests : target = <<>> \/ target[Len(target)] # "/"

\* a url ending with three slashes and a url without any were probed with the
\* empty path: the requests went to the two bare urls
C39_BareUrlsProbed ==
    /\ pc = "done"
    /\ opts.endpoint = GivenString(<<>>)
    /\ Len(candidates) = 2
    /\ candidates[1].url.val = CustomUrl \o <<"/", "/", "/">>
    /\ candidates[2].url.val = Custom2Url
    /\ requests = {CustomUrl, Custom2Url}

====
